---------------------------- MODULE Spec2Model ----------------------------
(***************************************************************************)
(* EQ2Emu World DB updater: catalog / plan / apply pipeline.               *)
(*                                                                         *)
(*   src/worldUpdater.js         catalog builder, buildUpdatePlan,         *)
(*                               splitSqlStatements, applyPlan             *)
(*   src/routes/worldUpdate.js   router: catalog cache, POST /start        *)
(*   src/app.js                  world_db: one mysql2 connection shared by *)
(*                               every request                             *)
(*                                                                         *)
(* Strings the code inspects character by character (table names, SQL      *)
(* text) are sequences of one-character strings; strings it only compares  *)
(* for equality (group names, modes) are TLA+ strings.                     *)
(***************************************************************************)
EXTENDS Integers, Sequences, FiniteSets, TLC

(***************************************************************************)
(* Bounds of the model.                                                    *)
(***************************************************************************)
\* longest remote tree (number of ZIP archives) a catalog build walks
MaxZips == 2
\* longest selectedTables array handed to buildUpdatePlan directly
MaxTables == 2
\* longest selectedGroups array handed to buildUpdatePlan directly
MaxGroups == 1
\* longest SQL text, over the splitter's alphabet, handed to splitSqlStatements
MaxSqlLen == 4

(***************************************************************************)
(* Character-level string helpers.                                         *)
(***************************************************************************)
UpperLetters ==
  <<"A","B","C","D","E","F","G","H","I","J","K","L","M",
    "N","O","P","Q","R","S","T","U","V","W","X","Y","Z">>

LowerLetters ==
  <<"a","b","c","d","e","f","g","h","i","j","k","l","m",
    "n","o","p","q","r","s","t","u","v","w","x","y","z">>

Range(s) == { s[i] : i \in DOMAIN s }

IsUpper(c) == \E i \in DOMAIN UpperLetters : UpperLetters[i] = c

IsLower(c) == \E i \in DOMAIN LowerLetters : LowerLetters[i] = c

LetterIndex(c) ==
  IF IsUpper(c) THEN CHOOSE i \in DOMAIN UpperLetters : UpperLetters[i] = c
  ELSE IF IsLower(c) THEN CHOOSE i \in DOMAIN LowerLetters : LowerLetters[i] = c
  ELSE 0

\* String.prototype.toLowerCase, one character
lowerChar(c) == IF IsUpper(c) THEN LowerLetters[LetterIndex(c)] ELSE c

\* String.prototype.toLowerCase
toLowerCase(s) == [ i \in DOMAIN s |-> lowerChar(s[i]) ]

\* String.prototype.startsWith
startsWith(s, p) ==
  /\ Len(p) <= Len(s)
  /\ \A i \in 1..Len(p) : s[i] = p[i]


\* all sequences over S of length at most n
SeqsUpTo(S, n) == UNION { [1..m -> S] : m \in 0..n }

(***************************************************************************)
(* Danger Set and group table (src/worldUpdater.js:25-43).                 *)
(***************************************************************************)
DANGEROUS_TABLES ==
  { <<"c","h","a","r","_","c","o","l","o","r","s">>,
    <<"c","h","a","r","a","c","t","e","r","_","a","a">>,
    <<"c","h","a","r","a","c","t","e","r","_","a","c","h","i","e","v","e","m","e","n","t","s">>,
    <<"c","h","a","r","a","c","t","e","r","_","a","c","h","i","e","v","e","m","e","n","t","s","_","i","t","e","m","s">>,
    <<"c","h","a","r","a","c","t","e","r","_","b","u","y","b","a","c","k">>,
    <<"c","h","a","r","a","c","t","e","r","_","c","l","a","i","m","_","i","t","e","m","s">>,
    <<"c","h","a","r","a","c","t","e","r","_","c","o","l","l","e","c","t","i","o","n","s">>,
    <<"c","h","a","r","a","c","t","e","r","_","d","e","t","a","i","l","s">>,
    <<"c","h","a","r","a","c","t","e","r","_","f","a","c","t","i","o","n","s">>,
    <<"c","h","a","r","a","c","t","e","r","_","h","i","s","t","o","r","y">>,
    <<"c","h","a","r","a","c","t","e","r","_","h","o","u","s","e","_","d","e","p","o","s","i","t","s">>,
    <<"c","h","a","r","a","c","t","e","r","_","h","o","u","s","e","_","h","i","s","t","o","r","y">>,
    <<"c","h","a","r","a","c","t","e","r","_","h","o","u","s","e","s">>,
    <<"c","h","a","r","a","c","t","e","r","_","i","n","s","t","a","n","c","e","s">>,
    <<"c","h","a","r","a","c","t","e","r","_","i","t","e","m","s">>,
    <<"c","h","a","r","a","c","t","e","r","_","i","t","e","m","s","_","g","r","o","u","p","_","m","e","m","b","e","r","s">>,
    <<"c","h","a","r","a","c","t","e","r","_","l","a","n","g","u","a","g","e","s">>,
    <<"c","h","a","r","a","c","t","e","r","_","l","u","a","_","h","i","s","t","o","r","y">>,
    <<"c","h","a","r","a","c","t","e","r","_","m","a","c","r","o","s">>,
    <<"c","h","a","r","a","c","t","e","r","_","m","a","i","l">>,
    <<"c","h","a","r","a","c","t","e","r","_","p","i","c","t","u","r","e","s">>,
    <<"c","h","a","r","a","c","t","e","r","_","p","r","o","p","e","r","t","i","e","s">>,
    <<"c","h","a","r","a","c","t","e","r","_","q","u","e","s","t","_","p","r","o","g","r","e","s","s">>,
    <<"c","h","a","r","a","c","t","e","r","_","q","u","e","s","t","_","r","e","w","a","r","d","s">>,
    <<"c","h","a","r","a","c","t","e","r","_","q","u","e","s","t","_","t","e","m","p","o","r","a","r","y","_","r","e","w","a","r","d","s">>,
    <<"c","h","a","r","a","c","t","e","r","_","q","u","e","s","t","s">>,
    <<"c","h","a","r","a","c","t","e","r","_","r","e","c","i","p","e","_","b","o","o","k","s">>,
    <<"c","h","a","r","a","c","t","e","r","_","r","e","c","i","p","e","s">>,
    <<"c","h","a","r","a","c","t","e","r","_","s","k","i","l","l","b","a","r">>,
    <<"c","h","a","r","a","c","e","r","_","s","k","i","l","l","s">>,
    <<"c","h","a","r","a","c","t","e","r","_","s","o","c","i","a","l">>,
    <<"c","h","a","r","a","c","t","e","r","_","s","p","e","l","l","_","e","f","f","e","c","t","_","t","a","r","g","e","t","s">>,
    <<"c","h","a","r","a","c","t","e","r","_","s","p","e","l","l","_","e","f","f","e","c","t","s">>,
    <<"c","h","a","r","a","c","t","e","r","_","s","p","e","l","l","s">>,
    <<"c","h","a","r","a","c","t","e","r","_","s","p","i","r","i","t","_","s","h","a","r","d","s">>,
    <<"c","h","a","r","a","c","t","e","r","_","t","i","t","l","e","s">>,
    <<"c","h","a","r","a","c","t","e","r","s">>,
    <<"c","h","a","r","a","c","t","e","r","s","P","r","o","p","e","r","t","i","e","s">>,
    <<"c","h","a","r","a","c","t","e","r","s","p","r","o","p","e","r","t","i","e","s">>,
    <<"s","t","a","t","i","s","t","i","c","s">>,
    <<"w","e","b","_","u","s","e","r","s">>,
    <<"c","h","a","r","a","c","t","e","r","_","c","u","s","t","o","m","_","s","p","e","l","l","_","d","a","t","a","i","n","d","e","x">>,
    <<"c","h","a","r","a","c","t","e","r","_","c","u","s","t","o","m","_","s","p","e","l","l","_","d","i","s","p","l","a","y">>,
    <<"c","h","a","r","a","c","t","e","r","_","c","u","s","t","o","m","_","s","p","e","l","l","_","d","a","t","a">>,
    <<"g","u","i","l","d","_","c","o","l","o","r","s">>,
    <<"g","u","i","l","d","_","e","v","e","n","t","_","f","i","l","t","e","r","s">>,
    <<"g","u","i","l","d","_","e","v","e","n","t","s">>,
    <<"g","u","i","l","d","_","m","e","m","b","e","r","s">>,
    <<"g","u","i","l","d","_","p","o","i","n","t","_","h","i","s","t","o","r","y">>,
    <<"g","u","i","l","d","_","r","a","n","k","s">>,
    <<"g","u","i","l","d","_","r","e","c","r","u","i","t","i","n","g">>,
    <<"g","u","i","l","d","s">>,
    <<"s","p","a","w","n","_","l","o","c","a","t","i","o","n","_","e","n","t","r","y","_","h","o","u","s","e","s">>,
    <<"s","p","a","w","n","_","l","o","c","a","t","i","o","n","_","n","a","m","e","_","h","o","u","s","e","s">>,
    <<"s","p","a","w","n","_","l","o","c","a","t","i","o","n","_","p","l","a","c","e","m","e","n","t","_","h","o","u","s","e","s">>,
    <<"s","p","a","w","n","_","h","o","u","s","e","s">>,
    <<"s","p","a","w","n","_","s","i","g","n","s","_","h","o","u","s","e","s">>,
    <<"s","p","a","w","n","_","w","i","d","g","e","t","s","_","h","o","u","s","e","s">>,
    <<"s","p","a","w","n","_","o","b","j","e","c","t","s","_","h","o","u","s","e","s">>,
    <<"s","p","a","w","n","_","g","r","o","u","n","d","_","h","o","u","s","e","s">>,
    <<"s","p","a","w","n","_","n","p","c","s","_","h","o","u","s","e","s">>,
    <<"b","r","o","k","e","r","_","s","e","l","l","e","r","_","l","o","g">>,
    <<"b","r","o","k","e","r","_","i","t","e","m","s">>,
    <<"b","r","o","k","e","r","_","s","e","l","l","e","r","s">> }

GROUP_PREFIXES ==
  << [group |-> "Zones & Geography", prefixes |->
        << <<"z","o","n","e","s">>,
           <<"z","o","n","e">>,
           <<"z","o","n","e","_">>,
           <<"z","o","n","e","a","c","c","e","s","s">>,
           <<"d","o","o","r">>,
           <<"d","o","o","r","s">>,
           <<"t","r","a","n","s","p","o","r","t">>,
           <<"n","a","v","m","e","s","h">>,
           <<"w","a","y","p","o","i","n","t">>,
           <<"w","a","y","p","o","i","n","t","s">>,
           <<"r","e","g","i","o","n">>,
           <<"h","a","r","v","e","s","t","_","n","o","d","e">>,
           <<"h","a","r","v","e","s","t","_","n","o","d","e","s">> >>],
     [group |-> "Loot & Drops", prefixes |->
        << <<"l","o","o","t","_">>,
           <<"l","o","o","t">>,
           <<"c","h","e","s","t","_","t","r","a","p","s">>,
           <<"s","p","a","w","n","_","l","o","o","t">> >>],
     [group |-> "Spawns & Placement", prefixes |->
        << <<"s","p","a","w","n","_">>,
           <<"s","p","a","w","n">>,
           <<"s","p","a","w","n","l","o","c","a","t","i","o","n">>,
           <<"g","r","i","d">>,
           <<"p","a","t","h">>,
           <<"w","a","y","p","o","i","n","t">> >>],
     [group |-> "NPCs & Factions", prefixes |->
        << <<"n","p","c","_">>,
           <<"n","p","c">>,
           <<"f","a","c","t","i","o","n">>,
           <<"f","a","c","t","i","o","n","s">>,
           <<"l","a","n","g","u","a","g","e">>,
           <<"l","a","n","g","u","a","g","e","s">> >>],
     [group |-> "Items & Appearance", prefixes |->
        << <<"i","t","e","m","_">>,
           <<"i","t","e","m","s">>,
           <<"a","p","p","e","a","r">>,
           <<"a","p","p","e","a","r","a","n","c","e">>,
           <<"m","o","d","e","l">>,
           <<"m","o","d","e","l","s">>,
           <<"i","t","e","m","_","a","p","p","e","a","r","a","n","c","e">>,
           <<"e","q","u","i","p">> >>],
     [group |-> "Quests", prefixes |->
        << <<"q","u","e","s","t","_">>,
           <<"q","u","e","s","t","s">>,
           <<"q","u","e","s","t">>,
           <<"j","o","u","r","n","a","l">>,
           <<"d","i","a","l","o","g","u","e">>,
           <<"c","o","n","v","e","r","s","a","t","i","o","n">>,
           <<"t","e","x","t">> >>],
     [group |-> "Merchants & Economy", prefixes |->
        << <<"m","e","r","c","h","a","n","t">>,
           <<"v","e","n","d","o","r","s">>,
           <<"v","e","n","d","o","r">>,
           <<"s","h","o","p">>,
           <<"e","c","o","n","o","m","y">>,
           <<"b","r","o","k","e","r","_">> >>],
     [group |-> "Spells & Combat", prefixes |->
        << <<"s","p","e","l","l","_">>,
           <<"s","p","e","l","l","s">>,
           <<"s","p","e","l","l">>,
           <<"a","b","i","l","i","t","y">>,
           <<"c","o","m","b","a","t">>,
           <<"p","r","o","c">>,
           <<"b","u","f","f">>,
           <<"e","f","f","e","c","t">> >>],
     [group |-> "Tradeskills & Recipes", prefixes |->
        << <<"r","e","c","i","p","e">>,
           <<"r","e","c","i","p","e","s">>,
           <<"t","r","a","d","e","s","k","i","l","l">>,
           <<"c","r","a","f","t">>,
           <<"c","o","m","b","i","n","e">> >>],
     [group |-> "Rules & Systems", prefixes |->
        << <<"r","u","l","e">>,
           <<"r","u","l","e","s">>,
           <<"s","e","r","v","e","r">>,
           <<"s","e","t","t","i","n","g">>,
           <<"s","e","t","t","i","n","g","s">>,
           <<"w","o","r","l","d","_">> >>],
     [group |-> "Books & Text", prefixes |->
        << <<"b","o","o","k","_">>,
           <<"b","o","o","k","s">>,
           <<"b","o","o","k">>,
           <<"t","e","x","t","s">>,
           <<"t","e","x","t">>,
           <<"n","p","c","_","t","e","x","t">> >>] >>

\* faulty variant: no table is protected
neverDangerous(table) == FALSE

\* faulty variant: the danger test ignores letter case
isDangerousAnyCase(table) ==
  toLowerCase(table) \in { toLowerCase(d) : d \in DANGEROUS_TABLES }

\* DANGEROUS_TABLES.has(table): case-sensitive exact match
isDangerous(table) == table \in DANGEROUS_TABLES

\* faulty variant: the group with the longest matching prefix wins
assignGroupLongest(tableName) ==
  LET t == toLowerCase(tableName)
      hits == { <<n, i>> \in (DOMAIN GROUP_PREFIXES) \X (1..13) :
                  /\ i \in DOMAIN GROUP_PREFIXES[n].prefixes
                  /\ startsWith(t, GROUP_PREFIXES[n].prefixes[i]) }
      len(h) == Len(GROUP_PREFIXES[h[1]].prefixes[h[2]])
  IN  IF hits = {} THEN "Other / Misc"
      ELSE GROUP_PREFIXES[(CHOOSE h \in hits : \A g \in hits :
                             len(g) < len(h) \/ (len(g) = len(h) /\ h[1] <= g[1]))[1]].group

\* assignGroup: first group, in declaration order, with a prefix of the
\* lowercased name
assignGroup(tableName) ==
  LET t == toLowerCase(tableName)
      hit(g) == \E i \in DOMAIN g.prefixes : startsWith(t, g.prefixes[i])
      hits == { n \in DOMAIN GROUP_PREFIXES : hit(GROUP_PREFIXES[n]) }
  IN  IF hits = {} THEN "Other / Misc"
      ELSE GROUP_PREFIXES[CHOOSE n \in hits : \A m \in hits : n <= m].group

(***************************************************************************)
(* The remote repository: ZIP archives and the files inside them.          *)
(***************************************************************************)
N_guilds == <<"g","u","i","l","d","s">>

N_spawn_houses == <<"s","p","a","w","n","_","h","o","u","s","e","s">>

N_spawn_npcs == <<"s","p","a","w","n","_","n","p","c","s">>

N_quests == <<"q","u","e","s","t","s">>

N_QUESTS == <<"Q","U","E","S","T","S">>

DotSql == <<".","s","q","l">>

DotSQL == <<".","S","Q","L">>

ReadmeTxt == <<"r","e","a","d","m","e",".","t","x","t">>

\* an entry name inside a ZIP: directory part and basename
Entry(dir, file) == [dir |-> dir, file |-> file]

\* SQL bodies of the dumps
SqlGuilds == <<"a",";","b",";">>

SqlSpawnNpcs == <<"c",";"," ","d">>

SqlSpawnHouses == <<"e",";">>

SqlQuests == <<"f",";">>

SqlQuestsOld == <<"g",";">>

ZipGuilds ==
  [name |-> "guilds.zip", fetch |-> "ok",
   files |-> << [entry |-> Entry("", N_guilds \o DotSql), text |-> SqlGuilds] >>]

ZipSpawns ==
  [name |-> "spawns.zip", fetch |-> "ok",
   files |-> << [entry |-> Entry("", N_spawn_npcs \o DotSql), text |-> SqlSpawnNpcs],
                [entry |-> Entry("", ReadmeTxt), text |-> <<>>],
                [entry |-> Entry("", N_spawn_houses \o DotSql), text |-> SqlSpawnHouses] >>]

ZipQuests ==
  [name |-> "quests.zip", fetch |-> "ok",
   files |-> << [entry |-> Entry("", N_quests \o DotSql), text |-> SqlQuests] >>]

ZipQuestsOld ==
  [name |-> "quests_old.zip", fetch |-> "ok",
   files |-> << [entry |-> Entry("bak/", N_quests \o DotSQL), text |-> SqlQuestsOld] >>]

\* a dump of table Guilds, named like the Danger Set member guilds but for
\* the letter case
N_Guilds == <<"G","u","i","l","d","s">>

ZipGuildsCaps ==
  [name |-> "guilds_caps.zip", fetch |-> "ok",
   files |-> << [entry |-> Entry("", N_Guilds \o DotSql), text |-> SqlGuilds] >>]

ZipBroken ==
  [name |-> "broken.zip", fetch |-> "fail", files |-> <<>>]

\* an archive with no *.sql entry, and bytes that JSZip.loadAsync rejects
ZipEmpty ==
  [name |-> "docs.zip", fetch |-> "ok",
   files |-> << [entry |-> Entry("", ReadmeTxt), text |-> <<>>] >>]

ZipCorrupt ==
  [name |-> "corrupt.zip", fetch |-> "corrupt", files |-> <<>>]

ZipUniverse ==
  { ZipGuilds, ZipSpawns, ZipQuests, ZipQuestsOld, ZipBroken, ZipEmpty, ZipCorrupt }

ZipByName(n) == CHOOSE z \in ZipUniverse : z.name = n

\* the tree listings a ref can resolve to: archives in tree order, no path twice
Trees ==
  { t \in SeqsUpTo(ZipUniverse, MaxZips) :
      \A i, j \in DOMAIN t : i # j => t[i].name # t[j].name }

\* /\.sql$/i
endsWithSql(file) ==
  /\ Len(file) >= 4
  /\ toLowerCase(SubSeq(file, Len(file) - 3, Len(file))) = DotSql

\* listSqlEntriesFromZip: names of the *.sql entries, contents not read
listSqlEntriesFromZip(zip) ==
  LET sqlFiles == SelectSeq(zip.files, LAMBDA f : endsWithSql(f.entry.file))
  IN  [ i \in DOMAIN sqlFiles |-> sqlFiles[i].entry ]

\* detectTableNameFromPaths: basename without .sql
detectTableNameFromPaths(entryName, zipName) ==
  IF endsWithSql(entryName.file)
  THEN SubSeq(entryName.file, 1, Len(entryName.file) - 4)
  ELSE <<"u","n","k","n","o","w","n","_","t","a","b","l","e">>

(***************************************************************************)
(* String.prototype.localeCompare on names over [A-Za-z_]: punctuation     *)
(* sorts before letters, letters compare without case first, and a name    *)
(* that differs only in case sorts lowercase first.                        *)
(***************************************************************************)
primaryWeight(c) == LetterIndex(c)

RECURSIVE primaryCompare(_, _)
primaryCompare(a, b) ==
  IF a = <<>> /\ b = <<>> THEN 0
  ELSE IF a = <<>> THEN -1
  ELSE IF b = <<>> THEN 1
  ELSE IF primaryWeight(Head(a)) < primaryWeight(Head(b)) THEN -1
  ELSE IF primaryWeight(Head(a)) > primaryWeight(Head(b)) THEN 1
  ELSE primaryCompare(Tail(a), Tail(b))

RECURSIVE caseCompare(_, _)
caseCompare(a, b) ==
  IF a = <<>> \/ b = <<>> THEN 0
  ELSE IF Head(a) = Head(b) THEN caseCompare(Tail(a), Tail(b))
  ELSE IF IsLower(Head(a)) THEN -1 ELSE 1

localeCompare(a, b) ==
  LET p == primaryCompare(a, b)
  IN  IF p # 0 THEN p ELSE caseCompare(a, b)

\* catalog.sort((a, b) => a.table.localeCompare(b.table)); the sort is stable
insertRow(sorted, row) ==
  LET p == Cardinality({ i \in DOMAIN sorted :
                           localeCompare(sorted[i].table, row.table) <= 0 })
  IN  SubSeq(sorted, 1, p) \o <<row>> \o SubSeq(sorted, p + 1, Len(sorted))

RECURSIVE sortByTable(_)
sortByTable(rows) ==
  IF rows = <<>> THEN <<>>
  ELSE insertRow(sortByTable(SubSeq(rows, 1, Len(rows) - 1)), rows[Len(rows)])

(***************************************************************************)
(* What GitHub answers for a ref: the commit object (status, sha, tree     *)
(* sha) and the recursive tree listing (status, archives under the path).  *)
(***************************************************************************)
CommitShas == {"c1", "c2"}

Remotes ==
  [status : {200, 404}, sha : CommitShas, treeSha : {"t1", "none"},
   treeStatus : {200, 403}, tree : Trees]

\* a ref that resolves and lists tree
RemoteOf(tree) ==
  [status |-> 200, sha |-> "c1", treeSha |-> "t1", treeStatus |-> 200, tree |-> tree]

\* resolveTreeSha: ref -> commitSha, treeSha
resolveTreeSha(remote) ==
  IF remote.status # 200
  THEN [error |-> "Commits API", commitSha |-> "none", treeSha |-> "none"]
  ELSE IF remote.treeSha = "none"
  THEN [error |-> "Missing tree SHA", commitSha |-> "none", treeSha |-> "none"]
  ELSE [error |-> "none", commitSha |-> remote.sha, treeSha |-> remote.treeSha]

\* listGithubZipsRecursive: the archives of the resolved tree
listGithubZipsRecursive(remote) ==
  LET r == resolveTreeSha(remote)
  IN  IF r.error # "none"
      THEN [error |-> r.error, commitSha |-> "none", zips |-> <<>>]
      ELSE IF remote.treeStatus # 200
      THEN [error |-> "Trees API", commitSha |-> "none", zips |-> <<>>]
      ELSE [error |-> "none", commitSha |-> r.commitSha, zips |-> remote.tree]

\* the download a builder asks fetchZipBuffer for: raw URL pinned to the
\* commit, blob as fallback
zipFetch(zip, commitSha) == [raw |-> <<commitSha, zip.name>>, blob |-> zip.name]

(***************************************************************************)
(* Catalog builder (fetchWorldTableCatalog): one metadata row per SQL      *)
(* entry of every archive that could be fetched, sorted by table.          *)
(***************************************************************************)
\* faulty variant: the row is stamped with the archive instead of the commit
catalogRowUnpinned(zip, entryName, commitSha) ==
  LET table == detectTableNameFromPaths(entryName, zip.name)
  IN  [table |-> table, group |-> assignGroup(table),
       zip |-> zip.name, commitSha |-> zip.name, entryName |-> entryName]

catalogRow(zip, entryName, commitSha) ==
  LET table == detectTableNameFromPaths(entryName, zip.name)
  IN  [table |-> table, group |-> assignGroup(table),
       zip |-> zip.name, commitSha |-> commitSha, entryName |-> entryName]

\* faulty variant: only the first SQL entry of an archive gets a row
rowsOfZipFirstEntry(zip, commitSha) ==
  IF zip.fetch # "ok" THEN <<>>
  ELSE LET sqlEntries == listSqlEntriesFromZip(zip)
       IN  IF sqlEntries = <<>> THEN <<>>
           ELSE << catalogRow(zip, sqlEntries[1], commitSha) >>

\* one pass of the loop body: the rows of one archive, none when the
\* download or the listing throws
rowsOfZip(zip, commitSha) ==
  IF zip.fetch # "ok" THEN <<>>
  ELSE LET sqlEntries == listSqlEntriesFromZip(zip)
       IN  [ i \in DOMAIN sqlEntries |-> catalogRow(zip, sqlEntries[i], commitSha) ]

RECURSIVE collectRows(_, _)
collectRows(zips, commitSha) ==
  IF zips = <<>> THEN <<>>
  ELSE rowsOfZip(Head(zips), commitSha) \o collectRows(Tail(zips), commitSha)

fetchWorldTableCatalog(remote) ==
  LET l == listGithubZipsRecursive(remote)
  IN  IF l.error # "none" THEN [error |-> l.error, catalog |-> <<>>]
      ELSE IF l.zips = <<>> THEN [error |-> "none", catalog |-> <<>>]
      ELSE [error |-> "none",
            catalog |-> sortByTable(collectRows(l.zips, l.commitSha))]

(***************************************************************************)
(* Progress-capable builder (fetchWorldTableCatalogWithProgress).  A run   *)
(* carries the sink (the event types at which onProgress throws), the      *)
(* error thrown to the caller, the events the sink took, the downloads     *)
(* asked for and the rows pushed so far.                                   *)
(***************************************************************************)
ProgressTypes ==
  {"resolving", "resolved", "found", "downloading", "foundSql",
   "zipEmpty", "zipError", "done"}

\* sinks: never throws, always throws, throws on the object events
Sinks == { {}, ProgressTypes, {"resolved", "zipEmpty", "zipError", "done"} }

Msg(type, zip, n, commitSha) ==
  [type |-> type, zip |-> zip, n |-> n, commitSha |-> commitSha]

NoRun(sink) ==
  [sink |-> sink, error |-> "none", events |-> <<>>, fetches |-> <<>>,
   catalog |-> <<>>]

\* faulty variant: the sink's exception escapes into the build
sendUnguarded(run, m) ==
  IF run.error # "none" THEN run
  ELSE IF m.type \in run.sink THEN [run EXCEPT !.error = "sink"]
  ELSE [run EXCEPT !.events = Append(@, m)]

\* const send = (m) => { try { onProgress && onProgress(m); } catch {} }
sendProgress(run, m) ==
  IF run.error # "none" THEN run
  ELSE IF m.type \in run.sink THEN run
  ELSE [run EXCEPT !.events = Append(@, m)]

\* faulty variant: an archive that fails ends the build
progressZipAborts(run, zip, i, commitSha) ==
  IF run.error # "none" THEN run
  ELSE IF zip.fetch # "ok" THEN [run EXCEPT !.error = "zip"]
  ELSE [run EXCEPT !.catalog = @ \o rowsOfZip(zip, commitSha)]

\* one pass of the loop body of the progress builder
progressZip(run, zip, i, commitSha) ==
  IF run.error # "none" THEN run
  ELSE
    LET r1 == sendProgress(run, Msg("downloading", zip.name, i, "none"))
        r2 == IF r1.error # "none" THEN r1
              ELSE [r1 EXCEPT !.fetches = Append(@, zipFetch(zip, commitSha))]
    IN  IF r2.error # "none" THEN r2
        ELSE IF zip.fetch # "ok"
        THEN sendProgress(r2, Msg("zipError", zip.name, 0, "none"))
        ELSE
          LET sqlEntries == listSqlEntriesFromZip(zip)
              r3 == sendProgress(r2, Msg("foundSql", zip.name, Len(sqlEntries), "none"))
              r4 == IF r3.error # "none" THEN r3
                    ELSE [r3 EXCEPT !.catalog = @ \o
                            [ e \in DOMAIN sqlEntries |->
                                catalogRow(zip, sqlEntries[e], commitSha) ]]
          IN  IF r4.error = "none" /\ Len(sqlEntries) = 0
              THEN sendProgress(r4, Msg("zipEmpty", zip.name, 0, "none"))
              ELSE r4

\* faulty variant: the archives are visited last to first
RECURSIVE progressLoopBackwards(_, _, _, _)
progressLoopBackwards(run, zips, i, commitSha) ==
  IF i > Len(zips) THEN run
  ELSE progressZip(progressLoopBackwards(run, zips, i + 1, commitSha),
                   zips[i], i, commitSha)

RECURSIVE progressLoop(_, _, _, _)
progressLoop(run, zips, i, commitSha) ==
  IF i > Len(zips) THEN run
  ELSE progressLoop(progressZip(run, zips[i], i, commitSha), zips, i + 1, commitSha)

fetchWorldTableCatalogWithProgress(remote, sink) ==
  LET r0 == sendProgress(NoRun(sink), Msg("resolving", "", 0, "none"))
      rs == resolveTreeSha(remote)
  IN  IF r0.error # "none" THEN r0
      ELSE IF rs.error # "none" THEN [r0 EXCEPT !.error = rs.error]
      ELSE
        LET r1 == sendProgress(r0, Msg("resolved", "", 0, rs.commitSha))
        IN  IF r1.error # "none" THEN r1
            ELSE IF remote.treeStatus # 200 THEN [r1 EXCEPT !.error = "Trees API"]
            ELSE
              LET zips == remote.tree
                  r2 == sendProgress(r1, Msg("found", "", Len(zips), rs.commitSha))
                  r3 == progressLoop(r2, zips, 1, rs.commitSha)
                  r4 == IF r3.error # "none" THEN r3
                        ELSE [r3 EXCEPT !.catalog = sortByTable(@)]
              IN  sendProgress(r4, Msg("done", "", Len(r4.catalog), rs.commitSha))

(***************************************************************************)
(* Plan builder (buildUpdatePlan).                                         *)
(***************************************************************************)
\* faulty variant: selection as an intersection of group and name
isChosenBoth(row, tableSet, groupSet) ==
  row.group \in groupSet /\ toLowerCase(row.table) \in tableSet

\* row is chosen: its group is selected or its table is, ignoring case
isChosen(row, tableSet, groupSet) ==
  row.group \in groupSet \/ toLowerCase(row.table) \in tableSet

planStep(row) ==
  [table |-> row.table, group |-> row.group,
   zip |-> row.zip, entryName |-> row.entryName]

\* faulty variant: one step per chosen row, duplicates kept
keepAll(chosen, seen) ==
  [ n \in DOMAIN chosen |->
      [table |-> chosen[n].table, group |-> chosen[n].group,
       zip |-> chosen[n].zip, entryName |-> chosen[n].entryName] ]

\* for (const row of chosen) { if (seen.has(row.table)) continue; ... }
RECURSIVE dedupeSteps(_, _)
dedupeSteps(chosen, seen) ==
  IF chosen = <<>> THEN <<>>
  ELSE IF Head(chosen).table \in seen THEN dedupeSteps(Tail(chosen), seen)
  ELSE <<planStep(Head(chosen))>>
         \o dedupeSteps(Tail(chosen), seen \cup {Head(chosen).table})

\* if (!includeChars) { const excluded = ...; if (excluded.length) logW(...) }:
\* the table names written to the warning log, <<>> when nothing is written
excludedWarning(catalog, selectedTables, selectedGroups, includeChars) ==
  LET tableSet == { toLowerCase(x) : x \in Range(selectedTables) }
      groupSet == Range(selectedGroups)
      chosen0  == SelectSeq(catalog, LAMBDA row : isChosen(row, tableSet, groupSet))
      dangerous == SelectSeq(chosen0, LAMBDA r : isDangerous(r.table))
  IN  IF includeChars THEN <<>>
      ELSE [ i \in DOMAIN dangerous |-> dangerous[i].table ]

\* faulty variant: the plan carries the default options
buildUpdatePlanDefaults(catalog, selectedTables, selectedGroups, includeChars, mode, truncate) ==
  LET tableSet == { toLowerCase(x) : x \in Range(selectedTables) }
      groupSet == Range(selectedGroups)
      chosen0  == SelectSeq(catalog, LAMBDA row : isChosen(row, tableSet, groupSet))
      chosen   == IF includeChars THEN chosen0
                  ELSE SelectSeq(chosen0, LAMBDA r : ~isDangerous(r.table))
  IN  [steps |-> dedupeSteps(chosen, {}),
       options |-> [includeChars |-> FALSE, mode |-> "apply", truncate |-> FALSE]]

\* the value returned: { steps, options: { includeChars, mode, truncate } }
buildUpdatePlan(catalog, selectedTables, selectedGroups, includeChars, mode, truncate) ==
  LET tableSet == { toLowerCase(x) : x \in Range(selectedTables) }
      groupSet == Range(selectedGroups)
      chosen0  == SelectSeq(catalog, LAMBDA row : isChosen(row, tableSet, groupSet))
      chosen   == IF includeChars THEN chosen0
                  ELSE SelectSeq(chosen0, LAMBDA r : ~isDangerous(r.table))
  IN  [steps |-> dedupeSteps(chosen, {}),
       options |-> [includeChars |-> includeChars, mode |-> mode, truncate |-> truncate]]

(***************************************************************************)
(* SQL statement splitter (splitSqlStatements).                            *)
(***************************************************************************)
Whitespace == {" ", "\n", "\t", "\r"}

\* sql[i], undefined past the end
charAt(sql, i) == IF i \in DOMAIN sql THEN sql[i] ELSE "undefined"

\* sql[i + 1] || ''
nextOrEmpty(sql, i) == IF i + 1 \in DOMAIN sql THEN <<sql[i + 1]>> ELSE <<>>

\* faulty variant: every semicolon ends a statement, whatever it stands in
splitStepNaive(sql, s) ==
  IF sql[s.i] = ";"
  THEN [s EXCEPT !.i = s.i + 1, !.cur = <<>>, !.out = Append(s.out, s.cur \o <<";">>)]
  ELSE [s EXCEPT !.i = s.i + 1, !.cur = s.cur \o <<sql[s.i]>>]

\* faulty variant: the terminator is left out of the emitted statement
splitStepNoTerminator(sql, s) ==
  IF sql[s.i] = ";" /\ s.st = "normal"
  THEN [s EXCEPT !.i = s.i + 1, !.cur = <<>>, !.out = Append(s.out, s.cur)]
  ELSE [s EXCEPT !.i = s.i + 1, !.cur = s.cur \o <<sql[s.i]>>,
                 !.st = IF s.st = "normal" /\ sql[s.i] = "'" THEN "inS"
                        ELSE IF s.st = "inS" /\ sql[s.i] = "'" THEN "normal"
                        ELSE s.st]

\* faulty variant: "--" and "/*" open nothing
splitStepNoComments(sql, s) ==
  LET ch == sql[s.i]
      copy1(st) == [s EXCEPT !.i = s.i + 1, !.cur = s.cur \o <<ch>>, !.st = st]
      escape == [s EXCEPT !.i = s.i + 2, !.cur = s.cur \o <<ch>> \o nextOrEmpty(sql, s.i)]
  IN  CASE s.st = "inS"     -> IF ch = "\\" THEN escape
                               ELSE copy1(IF ch = "'" THEN "normal" ELSE "inS")
        [] s.st = "inD"     -> IF ch = "\\" THEN escape
                               ELSE copy1(IF ch = "\"" THEN "normal" ELSE "inD")
        [] OTHER ->
             CASE ch = "'"  -> copy1("inS")
               [] ch = "\"" -> copy1("inD")
               [] ch = ";"  -> [s EXCEPT !.i = s.i + 1, !.cur = <<>>,
                                         !.out = Append(s.out, s.cur \o <<";">>)]
               [] OTHER     -> copy1("normal")

\* faulty variant: a backslash in a string is an ordinary character
splitStepNoEscape(sql, s) ==
  LET ch == sql[s.i]
      next == charAt(sql, s.i + 1)
      copy1(st) == [s EXCEPT !.i = s.i + 1, !.cur = s.cur \o <<ch>>, !.st = st]
      copy2(st) == [s EXCEPT !.i = s.i + 2, !.cur = s.cur \o <<ch, next>>, !.st = st]
  IN  CASE s.st = "inLine"  -> copy1(IF ch = "\n" THEN "normal" ELSE "inLine")
        [] s.st = "inBlock" -> IF ch = "*" /\ next = "/" THEN copy2("normal")
                               ELSE copy1("inBlock")
        [] s.st = "inS"     -> copy1(IF ch = "'" THEN "normal" ELSE "inS")
        [] s.st = "inD"     -> copy1(IF ch = "\"" THEN "normal" ELSE "inD")
        [] OTHER ->
             CASE ch = "-" /\ next = "-" -> copy2("inLine")
               [] ch = "/" /\ next = "*" -> copy2("inBlock")
               [] ch = "'"  -> copy1("inS")
               [] ch = "\"" -> copy1("inD")
               [] ch = ";"  -> [s EXCEPT !.i = s.i + 1, !.cur = <<>>,
                                         !.out = Append(s.out, s.cur \o <<";">>)]
               [] OTHER     -> copy1("normal")

\* one pass of the while loop; s holds i, cur, out and the lexer state st that
\* the flags inS, inD, inLine, inBlock encode (at most one of them is set)
splitStep(sql, s) ==
  LET ch == sql[s.i]
      next == charAt(sql, s.i + 1)
      copy1(st) == [s EXCEPT !.i = s.i + 1, !.cur = s.cur \o <<ch>>, !.st = st]
      copy2(st) == [s EXCEPT !.i = s.i + 2, !.cur = s.cur \o <<ch, next>>, !.st = st]
      escape == [s EXCEPT !.i = s.i + 2, !.cur = s.cur \o <<ch>> \o nextOrEmpty(sql, s.i)]
  IN  CASE s.st = "inLine"  -> copy1(IF ch = "\n" THEN "normal" ELSE "inLine")
        [] s.st = "inBlock" -> IF ch = "*" /\ next = "/" THEN copy2("normal")
                               ELSE copy1("inBlock")
        [] s.st = "inS"     -> IF ch = "\\" THEN escape
                               ELSE copy1(IF ch = "'" THEN "normal" ELSE "inS")
        [] s.st = "inD"     -> IF ch = "\\" THEN escape
                               ELSE copy1(IF ch = "\"" THEN "normal" ELSE "inD")
        [] OTHER ->
             CASE ch = "-" /\ next = "-" -> copy2("inLine")
               [] ch = "/" /\ next = "*" -> copy2("inBlock")
               [] ch = "'"  -> copy1("inS")
               [] ch = "\"" -> copy1("inD")
               [] ch = ";"  -> [s EXCEPT !.i = s.i + 1, !.cur = <<>>,
                                         !.out = Append(s.out, s.cur \o <<";">>)]
               [] OTHER     -> copy1("normal")

RECURSIVE splitLoop(_, _)
splitLoop(sql, s) ==
  IF s.i > Len(sql) THEN s ELSE splitLoop(sql, splitStep(sql, s))

\* String.prototype.trim
RECURSIVE trimStart(_)
trimStart(s) ==
  IF s # <<>> /\ Head(s) \in Whitespace THEN trimStart(Tail(s)) ELSE s

RECURSIVE trimEnd(_)
trimEnd(s) ==
  IF s # <<>> /\ s[Len(s)] \in Whitespace THEN trimEnd(SubSeq(s, 1, Len(s) - 1)) ELSE s

trim(s) == trimEnd(trimStart(s))

\* faulty variant: the text after the last terminator is dropped
splitSqlStatementsNoTail(sql) ==
  splitLoop(sql, [i |-> 1, cur |-> <<>>, out |-> <<>>, st |-> "normal"]).out

splitSqlStatements(sql) ==
  LET r == splitLoop(sql, [i |-> 1, cur |-> <<>>, out |-> <<>>, st |-> "normal"])
  IN  IF trim(r.cur) # <<>> THEN Append(r.out, r.cur) ELSE r.out

(***************************************************************************)
(* transformSqlForOptions: TRUNCATE prefix, INSERT INTO -> REPLACE INTO.   *)
(***************************************************************************)
Digits == {"0","1","2","3","4","5","6","7","8","9"}

\* \w
isWordChar(c) == IsUpper(c) \/ IsLower(c) \/ c \in Digits \/ c = "_"

W_insert == <<"i","n","s","e","r","t">>

W_into == <<"i","n","t","o">>

ReplaceInto == <<"R","E","P","L","A","C","E"," ","I","N","T","O">>

\* number of whitespace characters from position i on
RECURSIVE spaceRun(_, _)
spaceRun(s, i) ==
  IF i \in DOMAIN s /\ s[i] \in Whitespace THEN 1 + spaceRun(s, i + 1) ELSE 0

\* length of the match of /\bINSERT\s+INTO\b/i at position i, 0 when none
insertIntoAt(s, i) ==
  LET w == spaceRun(s, i + 6)
      e == i + 6 + w + 4
  IN  IF /\ (i = 1 \/ ~isWordChar(s[i - 1]))
         /\ i + 5 <= Len(s)
         /\ toLowerCase(SubSeq(s, i, i + 5)) = W_insert
         /\ w >= 1
         /\ e - 1 <= Len(s)
         /\ toLowerCase(SubSeq(s, e - 4, e - 1)) = W_into
         /\ (e > Len(s) \/ ~isWordChar(s[e]))
      THEN 6 + w + 4 ELSE 0

\* faulty variant: the pattern without the g flag, first match only
replaceFirstOnly(s, i) ==
  LET hits == { p \in i..Len(s) : insertIntoAt(s, p) > 0 }
  IN  IF hits = {} THEN SubSeq(s, i, Len(s))
      ELSE LET p == CHOOSE h \in hits : \A g \in hits : h <= g
           IN  SubSeq(s, i, p - 1) \o ReplaceInto
                 \o SubSeq(s, p + insertIntoAt(s, p), Len(s))

\* out.replace(/\bINSERT\s+INTO\b/gi, 'REPLACE INTO')
RECURSIVE replaceInsertInto(_, _)
replaceInsertInto(s, i) ==
  IF i > Len(s) THEN <<>>
  ELSE LET n == insertIntoAt(s, i)
       IN  IF n > 0 THEN ReplaceInto \o replaceInsertInto(s, i + n)
           ELSE <<s[i]>> \o replaceInsertInto(s, i + 1)

\* the backquote character, which cannot be written in a string literal here
Backquote == "backquote"

TruncatePrefix == <<"T","R","U","N","C","A","T","E"," ","T","A","B","L","E"," ",Backquote>>

Modes == {"apply", "replace"}

\* faulty variant: a mode that is not "replace" is taken for "apply"
transformAnyMode(sql, table, options) ==
  LET out == IF options.truncate
             THEN TruncatePrefix \o table \o <<Backquote, ";", "\n">> \o sql
             ELSE sql
  IN  IF options.mode = "replace"
      THEN [ok |-> TRUE, text |-> replaceInsertInto(out, 1)]
      ELSE [ok |-> TRUE, text |-> out]

\* [ok, text] or the thrown "Unsupported mode" error
transformSqlForOptions(sql, table, options) ==
  LET out == IF options.truncate
             THEN TruncatePrefix \o table \o <<Backquote, ";", "\n">> \o sql
             ELSE sql
  IN  IF options.mode = "replace"
      THEN [ok |-> TRUE, text |-> replaceInsertInto(out, 1)]
      ELSE IF options.mode # "apply"
      THEN [ok |-> FALSE, text |-> <<>>]
      ELSE [ok |-> TRUE, text |-> out]

(***************************************************************************)
(* JIT load of one step's SQL body (fetchZipBuffer, loadSqlForStep).       *)
(***************************************************************************)
\* what the two GETs can come back with: axios rejects (net = "error"), or
\* answers with a status (validateStatus accepts all) and a body
RawReplies ==
  { [net |-> "ok", status |-> s, data |-> d] : s \in {200, 206, 404, 500}, d \in BOOLEAN }
    \cup { [net |-> "error", status |-> 0, data |-> FALSE] }

BlobReplies ==
  { [net |-> "ok", status |-> s, encoding |-> e, content |-> c] :
      s \in {200, 206, 403}, e \in {"base64", "utf-8", "none"}, c \in BOOLEAN }
    \cup { [net |-> "error", status |-> 0, encoding |-> "none", content |-> FALSE] }

\* the replies the executor's downloads are tried with
RawOutcomes ==
  { [net |-> "ok", status |-> 200, data |-> TRUE],
    [net |-> "error", status |-> 0, data |-> FALSE] }

BlobOutcomes ==
  { [net |-> "ok", status |-> 200, encoding |-> "base64", content |-> TRUE],
    [net |-> "ok", status |-> 403, encoding |-> "none", content |-> FALSE],
    [net |-> "ok", status |-> 200, encoding |-> "utf-8", content |-> TRUE] }

\* Buffer.from(content || '', 'base64'): the archive's bytes, or no bytes
base64Decode(content) == IF content THEN "archive" ELSE "empty"

\* faulty variant: the blob API is asked whatever the raw download gave
fetchZipBufferBoth(raw, blob) ==
  IF blob.net = "error" \/ blob.status # 200 \/ blob.encoding # "base64"
  THEN [ok |-> FALSE, calls |-> <<"raw", "blob">>, bytes |-> "none"]
  ELSE [ok |-> TRUE, calls |-> <<"raw", "blob">>, bytes |-> base64Decode(blob.content)]

\* raw first; the blob API only when raw threw or did not return 200 with a
\* body.  calls: the GETs made, in order
fetchZipBuffer(raw, blob) ==
  IF raw.net = "ok" /\ raw.status = 200 /\ raw.data
  THEN [ok |-> TRUE, calls |-> <<"raw">>, bytes |-> "archive"]
  ELSE IF blob.net = "error"
  THEN [ok |-> FALSE, calls |-> <<"raw", "blob">>, bytes |-> "none"]
  ELSE IF blob.status # 200
  THEN [ok |-> FALSE, calls |-> <<"raw", "blob">>, bytes |-> "none"]
  ELSE IF blob.encoding # "base64"
  THEN [ok |-> FALSE, calls |-> <<"raw", "blob">>, bytes |-> "none"]
  ELSE [ok |-> TRUE, calls |-> <<"raw", "blob">>, bytes |-> base64Decode(blob.content)]

\* faulty variant: the recorded entry is ignored
pickEntryFirstSql(step, files) ==
  LET sqls == { n \in DOMAIN files : endsWithSql(files[n].entry.file) }
  IN  IF sqls # {} THEN CHOOSE n \in sqls : \A m \in sqls : n <= m ELSE 0

\* index of the file the step's SQL is read from, 0 when there is none:
\* the recorded entryName if the archive has it, else the first *.sql entry
pickEntry(step, files) ==
  LET exact == { n \in DOMAIN files : files[n].entry = step.entryName }
      sqls  == { n \in DOMAIN files : endsWithSql(files[n].entry.file) }
  IN  IF exact # {} THEN CHOOSE n \in exact : TRUE
      ELSE IF sqls # {} THEN CHOOSE n \in sqls : \A m \in sqls : n <= m
      ELSE 0

\* [ok, text]: the decoded SQL text, or ok = FALSE when loading throws
loadSqlForStep(step, raw, blob) ==
  LET files == ZipByName(step.zip).files
      n == pickEntry(step, files)
      buf == fetchZipBuffer(raw, blob)
  IN  IF ~buf.ok THEN [ok |-> FALSE, text |-> <<>>]
      ELSE IF buf.bytes # "archive" THEN [ok |-> FALSE, text |-> <<>>]
      ELSE IF n = 0 THEN [ok |-> FALSE, text |-> <<>>]
      ELSE [ok |-> TRUE, text |-> files[n].text]

(***************************************************************************)
(* The shared connection world_db (src/app.js:550, mysql2) and the         *)
(* database behind it.  Commands run in the order they were queued.  A     *)
(* session has at most one open transaction; statements outside one are    *)
(* committed at once (autocommit).  START TRANSACTION and TRUNCATE TABLE   *)
(* commit the open transaction implicitly.  A failed command changes       *)
(* nothing.                                                                *)
(***************************************************************************)
DbOps == {"FK0", "START", "STMT", "COMMIT", "ROLLBACK", "FK1"}

W_truncate == <<"t","r","u","n","c","a","t","e">>

isTruncate(s) == Len(s) >= 8 /\ toLowerCase(SubSeq(s, 1, 8)) = W_truncate

\* the rows one statement of a job writes
Write(j, k, i) == [job |-> j, step |-> k, stmt |-> i]

dbApply(d, j, job) ==
  IF job.pc = "FK0" THEN [d EXCEPT !.fk = FALSE]
  ELSE IF job.pc = "FK1" THEN [d EXCEPT !.fk = TRUE]
  ELSE IF job.pc = "START"
  THEN [d EXCEPT !.tx = TRUE, !.durable = d.durable \cup d.pending, !.pending = {}]
  ELSE IF job.pc = "COMMIT"
  THEN [d EXCEPT !.tx = FALSE, !.durable = d.durable \cup d.pending, !.pending = {}]
  ELSE IF job.pc = "ROLLBACK"
  THEN [d EXCEPT !.tx = FALSE, !.pending = {}]
  ELSE IF isTruncate(trim(job.stmts[job.i]))
  THEN [d EXCEPT !.tx = FALSE, !.pending = {},
                 !.durable = d.durable \cup d.pending \cup {Write(j, job.k, job.i)}]
  ELSE IF d.tx
  THEN [d EXCEPT !.pending = d.pending \cup {Write(j, job.k, job.i)}]
  ELSE [d EXCEPT !.durable = d.durable \cup {Write(j, job.k, job.i)}]

(***************************************************************************)
(* Plan executor (applyPlan, runSqlSafely).  A job is always suspended at  *)
(* one await: a command on the connection (pc is its name), the archive    *)
(* download of step k (pc = "FETCH"), or nothing any more ("settled").     *)
(* trace is the history of what the invocation sent and what came back.    *)
(***************************************************************************)
\* what the driver hands to the callback of conn.query when a command fails
NoDriverError == [code |-> "none", errno |-> 0, sqlState |-> "none"]

\* errors of the server on a statement of a dump
StatementErrors ==
  { [code |-> "ER_DUP_ENTRY", errno |-> 1062, sqlState |-> "23000"],
    [code |-> "ER_PARSE_ERROR", errno |-> 1064, sqlState |-> "42000"] }

\* error of the driver when the connection is gone
ConnectionLost ==
  [code |-> "PROTOCOL_CONNECTION_LOST", errno |-> 0, sqlState |-> "none"]

\* the errors command op can fail with
DriverErrors(op) == IF op = "STMT" THEN StatementErrors ELSE {ConnectionLost}

\* an error travelling up applyPlan: kind tells where it was made; table,
\* stmtIndex and preview are its meta; driver holds code, errno and sqlState
NoError ==
  [kind |-> "none", table |-> <<>>, stmtIndex |-> -1, preview |-> <<>>,
   driver |-> NoDriverError]

Err(kind, table, stmtIndex) ==
  [NoError EXCEPT !.kind = kind, !.table = table, !.stmtIndex = stmtIndex]

\* the error a failed conn.query rejects with
driverThrown(job) == [Err("driver", <<>>, -1) EXCEPT !.driver = job.err]

\* enrichSqlError: code, errno and sqlState are copied, extra becomes meta
enrichSqlError(err, extra) ==
  [err EXCEPT !.kind = "sql", !.table = extra.table,
              !.stmtIndex = extra.stmtIndex, !.preview = extra.preview]

\* longest preview of a failing statement
PreviewMax == 300

\* s.replace(/\s+/g, ' ').slice(0, 300)
previewOf(s) ==
  LET keep == SelectSeq([p \in DOMAIN s |-> p],
                        LAMBDA p : ~(s[p] \in Whitespace /\ p > 1 /\ s[p - 1] \in Whitespace))
      collapsed == [n \in DOMAIN keep |->
                      IF s[keep[n]] \in Whitespace THEN " " ELSE s[keep[n]]]
  IN  SubSeq(collapsed, 1, IF Len(collapsed) < PreviewMax THEN Len(collapsed) ELSE PreviewMax)

\* the requests that can open a progress stream on a job
StreamIds == {"s1", "s2"}

\* a response of GET /stream/:jobId: not asked for yet, listening on the
\* job's emitter, or ended; the log lines and the terminal event written to it
\* got: the numbers of the log lines written, in the order written;
\* backlog: how many of them were replayed from job.logs when it was opened
NoStream ==
  [state |-> "idle", lines |-> 0, last |-> "none", got |-> <<>>, backlog |-> 0]

NoJob ==
  [status |-> "none", pc |-> "none", plan |-> [steps |-> <<>>], k |-> 0, i |-> 0,
   stmts |-> <<>>, thrown |-> NoError, outcome |-> "pending", trace |-> <<>>,
   err |-> NoDriverError, subs |-> [ s \in StreamIds |-> NoStream ],
   terminal |-> <<>>]

Ev(op, k, i, ph) == [op |-> op, k |-> k, i |-> i, ph |-> ph, code |-> "none"]

\* the job record with what came back for the awaited operation
replied(job, ph) ==
  [job EXCEPT !.trace = Append(job.trace,
                               [Ev(job.pc, job.k, job.i, ph) EXCEPT !.code = job.err.code])]

\* await query(world_db, <op>)
issueCmd(job, op) ==
  [job EXCEPT !.pc = op, !.err = NoDriverError,
              !.trace = Append(job.trace, Ev(op, job.k, job.i, "send"))]

\* the promise of applyPlan settles; the job runner records the outcome
settle(job) ==
  [job EXCEPT !.pc = "settled", !.err = NoDriverError,
              !.outcome = IF job.thrown = NoError THEN "resolved" ELSE "rejected",
              !.status  = IF job.thrown = NoError THEN "finished" ELSE "error",
              !.terminal = Append(job.terminal,
                                  IF job.thrown = NoError THEN "done" ELSE "fail")]

\* finally { SET FOREIGN_KEY_CHECKS=1 }
finallyFk(job) == issueCmd(job, "FK1")

\* catch (e) { ROLLBACK; throw e }
catchRollback(job, e) == issueCmd([job EXCEPT !.thrown = e], "ROLLBACK")

\* const rawSql = await loadSqlForStep(step)
startFetch(job, k) ==
  [job EXCEPT !.pc = "FETCH", !.k = k, !.i = 0, !.stmts = <<>>, !.err = NoDriverError,
              !.trace = Append(job.trace, Ev("FETCH", k, 0, "send"))]


\* send(msg): the line goes to the progress sink, which may throw
send(job, logOk) ==
  [job EXCEPT !.trace = Append(job.trace,
                               Ev("LOG", job.k, job.i, IF logOk THEN "ok" ELSE "err"))]

SinkError == Err("sink", <<>>, -1)

\* for (const step of plan.steps) { send('Updating ...'); load ... };
\* send('Committing'); COMMIT after the last step
nextStep(job, k, logOk) ==
  IF k <= Len(job.plan.steps)
  THEN IF logOk THEN startFetch(send([job EXCEPT !.k = k, !.i = 0], logOk), k)
       ELSE catchRollback(send([job EXCEPT !.k = k, !.i = 0, !.stmts = <<>>], logOk),
                          SinkError)
  ELSE LET done == send([job EXCEPT !.k = 0, !.i = 0, !.stmts = <<>>], logOk)
       IN  IF logOk THEN issueCmd(done, "COMMIT") ELSE catchRollback(done, SinkError)

\* faulty variant: the next step is fetched as soon as the first statement
\* of a step has come back
nextStmtPrefetch(job, i, logOk) ==
  IF i > 1 THEN nextStep(job, job.k + 1, logOk)
  ELSE issueCmd([job EXCEPT !.i = i], "STMT")

\* faulty variant: the last remaining statement is sent first
nextStmtLast(job, i, logOk) ==
  LET rest == { n \in i..Len(job.stmts) : job.stmts[n] # <<>> }
  IN  IF rest = {} THEN nextStep(job, job.k + 1, logOk)
      ELSE issueCmd([job EXCEPT !.i = CHOOSE n \in rest : \A m \in rest : n >= m], "STMT")

\* runSqlSafely from statement i on: fragments that trim to nothing are skipped
nextStmt(job, i, logOk) ==
  LET rest == { n \in i..Len(job.stmts) : trim(job.stmts[n]) # <<>> }
  IN  IF rest = {} THEN nextStep(job, job.k + 1, logOk)
      ELSE issueCmd([job EXCEPT !.i = CHOOSE n \in rest : \A m \in rest : n <= m], "STMT")

\* send(JSON.stringify({ level: 'error', table, stmtIndex, preview, code,
\* ... })): the line of a failed statement; table, index and preview are
\* those of the job's current step and statement
sendErrorLine(job, e, logOk) ==
  [job EXCEPT !.trace =
     Append(job.trace, [Ev("LOG", job.k, job.i, IF logOk THEN "ok" ELSE "err")
                          EXCEPT !.code = e.driver.code])]

\* faulty variant: the failure is thrown on without the line
stmtFailedSilent(job, logOk) ==
  catchRollback(job, [Err("sql", job.plan.steps[job.k].table, job.i - 1)
                        EXCEPT !.driver = job.err])

\* a statement failed: the error line goes to the sink, then the enriched
\* error (or what the sink threw) reaches the outer catch
stmtFailed(job, logOk) ==
  LET inner == enrichSqlError(driverThrown(job),
                              [table |-> <<>>, stmtIndex |-> job.i - 1,
                               preview |-> previewOf(trim(job.stmts[job.i]))])
      outer == enrichSqlError(inner,
                              [table |-> job.plan.steps[job.k].table,
                               stmtIndex |-> inner.stmtIndex, preview |-> inner.preview])
  IN  catchRollback(sendErrorLine(job, inner, logOk),
                    IF logOk THEN outer ELSE SinkError)

\* faulty variant: the loop is entered without opening a transaction
onFk0NoTransaction(job, ok, logOk) ==
  IF ok THEN nextStep(job, 1, logOk)
  ELSE settle([job EXCEPT !.thrown = driverThrown(job)])

\* SET FOREIGN_KEY_CHECKS=0 came back: START TRANSACTION, or the error leaves
\* applyPlan at once (the command is outside the try block)
onFk0(job, ok, logOk) ==
  IF ok THEN issueCmd(job, "START")
  ELSE settle([job EXCEPT !.thrown = driverThrown(job)])

\* START TRANSACTION came back: enter the loop, or the error leaves applyPlan
\* at once (the command is outside the try block)
onStart(job, ok, logOk) ==
  IF ok THEN nextStep(job, 1, logOk)
  ELSE settle([job EXCEPT !.thrown = driverThrown(job)])

\* faulty variant: a failed statement is skipped and the step goes on
onStmtSkipsFailure(job, ok, logOk) == nextStmt(job, job.i + 1, logOk)

\* a statement came back: the next one, or the enriched error
onStmt(job, ok, logOk) ==
  IF ok THEN nextStmt(job, job.i + 1, logOk) ELSE stmtFailed(job, logOk)

\* faulty variant: a failed COMMIT is swallowed
onCommitSwallowed(job, ok, logOk) == finallyFk(job)

\* COMMIT came back: finally, or the outer catch
onCommit(job, ok, logOk) ==
  IF ok THEN finallyFk(job) ELSE catchRollback(job, driverThrown(job))

\* ROLLBACK came back: its own failure is swallowed
onRollback(job, ok, logOk) == finallyFk(job)

\* SET FOREIGN_KEY_CHECKS=1 came back: the line sent after it and the
\* command's own failure are both inside try {} catch {}
onFk1(job, ok, logOk) == settle(IF ok THEN send(job, logOk) ELSE job)

\* continuation of applyPlan after the awaited command came back
afterReply(job, ok, logOk) ==
  LET rec == replied(job, IF ok THEN "ok" ELSE "err")
  IN  CASE job.pc = "FK0"      -> onFk0(rec, ok, logOk)
        [] job.pc = "START"    -> onStart(rec, ok, logOk)
        [] job.pc = "STMT"     -> onStmt(rec, ok, logOk)
        [] job.pc = "COMMIT"   -> onCommit(rec, ok, logOk)
        [] job.pc = "ROLLBACK" -> onRollback(rec, ok, logOk)
        [] job.pc = "FK1"      -> onFk1(rec, ok, logOk)

\* continuation of applyPlan after loadSqlForStep settled: transform, split, run
afterFetch(job, res, logOk) ==
  LET rec  == replied(job, IF res.ok THEN "ok" ELSE "err")
      step == job.plan.steps[job.k]
      tr   == transformSqlForOptions(res.text, step.table, job.plan.options)
  IN  IF ~res.ok THEN catchRollback(rec, Err("load", step.table, -1))
      ELSE IF ~tr.ok THEN catchRollback(rec, Err("mode", step.table, -1))
      ELSE nextStmt([rec EXCEPT !.stmts = splitSqlStatements(tr.text)], 1, logOk)

(***************************************************************************)
(* Progress streams (GET /stream/:jobId) and the job runner's emitter.     *)
(***************************************************************************)
\* job.logs: one line per call of the runner's send
logsOf(job) == Len(SelectSeq(job.trace, LAMBDA e : e.op = "LOG"))

\* faulty variant: closing the stream cancels the job
cleanupCancels(job, s) ==
  [job EXCEPT !.subs[s].state = "ended", !.pc = "settled", !.status = "error",
              !.outcome = "rejected", !.thrown = Err("driver", <<>>, -1)]

\* cleanup: the listeners of the response leave the emitter, res.end()
cleanup(job, s) == [job EXCEPT !.subs[s].state = "ended", !.subs[s].backlog = 0]

\* the stream handler: backlog, then the terminal event of a job that is
\* over, or listeners on the emitter of a job that runs
subscribe(job, s) ==
  LET backlog == [job EXCEPT !.subs[s].lines = logsOf(job),
                             !.subs[s].got = [ n \in 1..logsOf(job) |-> n ],
                             !.subs[s].backlog = logsOf(job)]
  IN  IF job.status = "finished"
      THEN [backlog EXCEPT !.subs[s].last = "done", !.subs[s].state = "ended"]
      ELSE IF job.status = "error"
      THEN [backlog EXCEPT !.subs[s].last = "fail", !.subs[s].state = "ended"]
      ELSE [backlog EXCEPT !.subs[s].state = "listening"]

\* emitter.emit('log', line) for every line the step sent, then
\* emitter.emit('done' | 'fail') when the runner saw applyPlan settle:
\* what the listening responses are written
emitted(before, after) ==
  IF \A s \in StreamIds : before.subs[s].state # "listening" THEN after
  ELSE [after EXCEPT !.subs =
          [ s \in StreamIds |->
              IF before.subs[s].state # "listening" THEN before.subs[s]
              ELSE [state |-> IF after.pc = "settled" THEN "ended" ELSE "listening",
                    backlog |-> IF after.pc = "settled" THEN 0
                                ELSE before.subs[s].backlog,
                    lines |-> before.subs[s].lines + logsOf(after) - logsOf(before),
                    got   |-> before.subs[s].got \o
                                [ n \in 1..(logsOf(after) - logsOf(before)) |->
                                    logsOf(before) + n ],
                    last  |-> IF after.pc # "settled" THEN "none"
                              ELSE IF after.status = "finished" THEN "done"
                              ELSE "fail"] ]]

(***************************************************************************)
(* Catalog jobs (POST /catalog/start) and their progress streams           *)
(* (GET /catalog/stream/:jobId).                                           *)
(***************************************************************************)
CatalogJobIds == {"cat_1"}

\* what the refs of catalog jobs resolve to: two dumps; an archive without
\* dump; an archive that fails and a dump; a ref the Commits API rejects
JobRemotes ==
  { RemoteOf(<<ZipGuilds, ZipSpawns>>),
    RemoteOf(<<ZipEmpty>>),
    RemoteOf(<<ZipBroken, ZipGuilds>>),
    [RemoteOf(<<ZipGuilds>>) EXCEPT !.status = 404] }

NoCatalogJob ==
  [status |-> "none", remote |-> RemoteOf(<<>>), logs |-> <<>>, terminal |-> <<>>,
   subs |-> [ s \in StreamIds |-> NoStream ]]

\* await fn({ ref, onProgress }): the events the builder sends and how it ends
builderRun(job) == fetchWorldTableCatalogWithProgress(job.remote, {})

\* onProgress: job.logs.push(line); emitter.emit('progress', line)
onProgress(job) ==
  LET n == Len(job.logs) + 1
  IN  [job EXCEPT
         !.logs = Append(@, builderRun(job).events[n]),
         !.subs = [ s \in StreamIds |->
                      IF job.subs[s].state # "listening" THEN job.subs[s]
                      ELSE [job.subs[s] EXCEPT !.lines = @ + 1, !.got = Append(@, n)] ]]

\* faulty variant: the terminal event is emitted and the job left running
catalogSettleStaysRunning(job) ==
  [job EXCEPT !.terminal = Append(@, IF builderRun(job).error = "none"
                                     THEN "done" ELSE "fail")]

\* the builder returned or threw: status, then emitter.emit('done' | 'fail')
catalogSettle(job) ==
  LET ok == builderRun(job).error = "none"
  IN  [job EXCEPT
         !.status = IF ok THEN "finished" ELSE "error",
         !.terminal = Append(@, IF ok THEN "done" ELSE "fail"),
         !.subs = [ s \in StreamIds |->
                      IF job.subs[s].state # "listening" THEN job.subs[s]
                      ELSE [job.subs[s] EXCEPT !.state = "ended", !.backlog = 0,
                                               !.last = IF ok THEN "done" ELSE "fail"] ]]

\* faulty variant: the stream listens without replaying the backlog
catalogSubscribeLive(job, s) ==
  IF job.status = "finished"
  THEN [job EXCEPT !.subs[s].last = "done", !.subs[s].state = "ended"]
  ELSE IF job.status = "error"
  THEN [job EXCEPT !.subs[s].last = "fail", !.subs[s].state = "ended"]
  ELSE [job EXCEPT !.subs[s].state = "listening"]

\* the catalog stream handler: backlog, then the terminal event of a job that
\* is over, or listeners on the emitter of a job that runs
catalogSubscribe(job, s) ==
  LET backlog == [job EXCEPT !.subs[s].lines = Len(job.logs),
                             !.subs[s].got = [ n \in 1..Len(job.logs) |-> n ],
                             !.subs[s].backlog = Len(job.logs)]
  IN  IF job.status = "finished"
      THEN [backlog EXCEPT !.subs[s].last = "done", !.subs[s].state = "ended"]
      ELSE IF job.status = "error"
      THEN [backlog EXCEPT !.subs[s].last = "fail", !.subs[s].state = "ended"]
      ELSE [backlog EXCEPT !.subs[s].state = "listening"]

(***************************************************************************)
(* Router (src/routes/worldUpdate.js): catalog cache and POST /start.      *)
(***************************************************************************)
\* ids of update jobs; at most this many are started in one run
JobIds == {"upd_1", "upd_2"}

\* nameIndex.get(key): the table of the last catalog row with that lowercased
\* name (the inner file basename of a row is its table name)
resolveName(catalog, t) ==
  LET key  == toLowerCase(trim(t))
      hits == { n \in DOMAIN catalog : toLowerCase(catalog[n].table) = key }
  IN  IF hits = {} THEN <<>>
      ELSE <<catalog[CHOOSE n \in hits : \A m \in hits : m <= n].table>>

RECURSIVE resolveAll(_, _)
resolveAll(catalog, input) ==
  IF input = <<>> THEN <<>>
  ELSE resolveName(catalog, Head(input)) \o resolveAll(catalog, Tail(input))

\* [...new Set(a)]
RECURSIVE uniq(_, _)
uniq(a, seen) ==
  IF a = <<>> THEN <<>>
  ELSE IF Head(a) \in seen THEN uniq(Tail(a), seen)
  ELSE <<Head(a)>> \o uniq(Tail(a), seen \cup {Head(a)})

effectiveTables(catalog, body) ==
  IF body.selectAll THEN [ n \in DOMAIN catalog |-> catalog[n].table ]
  ELSE uniq(resolveAll(catalog, body.selectedTables), {})

\* the plan POST /start builds from the request body
startPlan(catalog, body) ==
  buildUpdatePlan(catalog, effectiveTables(catalog, body), body.selectedGroups,
                  body.includeChars, body.mode, body.truncate)

\* faulty variant: a plan without steps is not refused
startRejectedKeepsEmptyPlan(catalog, body) ==
  \/ catalog = <<>>
  \/ (~body.selectAll /\ effectiveTables(catalog, body) = <<>> /\ body.selectedGroups = <<>>)

\* the request is answered 400: nothing cached, nothing selected, or an empty plan
startRejected(catalog, body) ==
  \/ catalog = <<>>
  \/ (~body.selectAll /\ effectiveTables(catalog, body) = <<>> /\ body.selectedGroups = <<>>)
  \/ startPlan(catalog, body).steps = <<>>

\* the new job: applyPlan sends its first line and runs to its first await;
\* what the sink throws there leaves applyPlan before any command
newJob(plan, logOk) ==
  LET job == send([NoJob EXCEPT !.status = "running", !.plan = plan], logOk)
  IN  IF logOk THEN issueCmd(job, "FK0")
      ELSE settle([job EXCEPT !.thrown = SinkError])

Body(tables, groups, includeChars, mode, truncate, selectAll) ==
  [selectedTables |-> tables, selectedGroups |-> groups, includeChars |-> includeChars,
   mode |-> mode, truncate |-> truncate, selectAll |-> selectAll]

\* request bodies of POST /start
StartBodies ==
  { Body(<<N_guilds, N_spawn_houses>>, <<>>, TRUE, "apply", FALSE, FALSE),
    Body(<<>>, <<"Spawns & Placement">>, FALSE, "replace", TRUE, FALSE),
    Body(<<N_spawn_npcs>>, <<>>, FALSE, "upsert", FALSE, FALSE),
    Body(<<N_guilds>>, <<>>, FALSE, "apply", FALSE, FALSE) }

\* tree listings of the refs the router loads catalogs for
RouterTrees == { <<ZipGuilds, ZipSpawns>> }

\* the catalogs the router can come to cache
RouterCatalogs == { fetchWorldTableCatalog(RemoteOf(t)).catalog : t \in RouterTrees }

\* every catalog a build can return
Catalogs == { fetchWorldTableCatalog(RemoteOf(t)).catalog : t \in Trees }

\* inputs of direct buildUpdatePlan calls
TableInputs == { N_guilds, N_spawn_houses, N_quests, N_QUESTS }

GroupInputs == { "Spawns & Placement", "Quests" }

ModeInputs == { "apply", "replace" }

VARIABLES
  catalogByRef,   \* cached catalog of ref "main"; <<>> when none is cached
  lastBuild,      \* arguments and result of the last direct buildUpdatePlan call
  jobs,           \* updateJobs: job id -> job record
  queue,          \* ids of the jobs whose command waits on the connection, FIFO
  db,             \* session and data: fk, tx, pending, durable
  lastCall,       \* arguments and result of the last direct call of a helper
  catalogJobs     \* catalogJobs: catalog job id -> job record

vars == <<catalogByRef, lastBuild, jobs, queue, db, lastCall, catalogJobs>>

NoCall == [fn |-> "none"]

NoBuild == [called |-> FALSE]

Init ==
  /\ catalogByRef = <<>>
  /\ lastBuild = NoBuild
  /\ jobs = [ j \in JobIds |-> NoJob ]
  /\ queue = <<>>
  /\ db = [fk |-> TRUE, tx |-> FALSE, pending |-> {}, durable |-> {}]
  /\ lastCall = NoCall
  /\ catalogJobs = [ c \in CatalogJobIds |-> NoCatalogJob ]

\* GET /catalog, POST /catalog/start: the finished build is cached by ref
GetCatalog ==
  /\ \E c \in RouterCatalogs : catalogByRef' = c
  /\ UNCHANGED <<lastBuild, jobs, queue, db, lastCall, catalogJobs>>

\* buildUpdatePlan called on the cached catalog with a normalized selection
BuildPlanCall ==
  /\ lastBuild = NoBuild
  /\ \E tables \in SeqsUpTo(TableInputs, MaxTables),
        groups \in SeqsUpTo(GroupInputs, MaxGroups),
        includeChars \in BOOLEAN, mode \in ModeInputs, truncate \in BOOLEAN :
       lastBuild' = [called |-> TRUE, catalog |-> catalogByRef,
                     selectedTables |-> tables, selectedGroups |-> groups,
                     includeChars |-> includeChars, mode |-> mode,
                     truncate |-> truncate,
                     warned |-> excludedWarning(catalogByRef, tables, groups,
                                                includeChars),
                     plan |-> buildUpdatePlan(catalogByRef, tables, groups,
                                              includeChars, mode, truncate)]
  /\ UNCHANGED <<catalogByRef, jobs, queue, db, lastCall, catalogJobs>>

\* POST /start: build the plan, create the job, run applyPlan to its first await
Start ==
  /\ \E id \in JobIds : jobs[id].status = "none"
  /\ \E body \in StartBodies, logOk \in BOOLEAN :
       /\ ~startRejected(catalogByRef, body)
       /\ LET id   == CHOOSE free \in JobIds : jobs[free].status = "none"
              job2 == newJob(startPlan(catalogByRef, body), logOk)
          IN  /\ jobs' = [jobs EXCEPT ![id] = job2]
              /\ queue' = IF job2.pc \in DbOps THEN Append(queue, id) ELSE queue
  /\ UNCHANGED <<catalogByRef, lastBuild, db, lastCall, catalogJobs>>

\* the connection runs the command at the head of its queue and calls back
DbExec ==
  /\ queue # <<>>
  /\ LET j == Head(queue)
     IN  \E reply \in {NoDriverError} \cup DriverErrors(jobs[j].pc), logOk \in BOOLEAN :
           LET ok   == reply = NoDriverError
               job2 == afterReply([jobs[j] EXCEPT !.err = reply], ok, logOk)
           IN  /\ db' = IF ok THEN dbApply(db, j, jobs[j]) ELSE db
               /\ jobs' = [jobs EXCEPT ![j] = emitted(jobs[j], job2)]
               /\ queue' = Tail(queue) \o (IF job2.pc \in DbOps THEN <<j>> ELSE <<>>)
  /\ UNCHANGED <<catalogByRef, lastBuild, lastCall, catalogJobs>>

\* the archive download of a job's current step settles
FetchDone ==
  /\ \E j \in JobIds :
       /\ jobs[j].pc = "FETCH"
       /\ \E raw \in RawOutcomes, blob \in BlobOutcomes, logOk \in BOOLEAN :
            LET job2 == afterFetch(jobs[j],
                                   loadSqlForStep(jobs[j].plan.steps[jobs[j].k], raw, blob),
                                   logOk)
            IN  /\ jobs' = [jobs EXCEPT ![j] = emitted(jobs[j], job2)]
                /\ queue' = IF job2.pc \in DbOps THEN Append(queue, j) ELSE queue
  /\ UNCHANGED <<catalogByRef, lastBuild, db, lastCall, catalogJobs>>

Next ==
  \/ GetCatalog
  \/ Start
  \/ DbExec
  \/ FetchDone

Spec == Init /\ [][Next]_vars

\* buildUpdatePlan on its own: any catalog a build can return, one call
InitPlan ==
  /\ catalogByRef \in Catalogs
  /\ lastBuild = NoBuild
  /\ jobs = [ j \in JobIds |-> NoJob ]
  /\ queue = <<>>
  /\ db = [fk |-> TRUE, tx |-> FALSE, pending |-> {}, durable |-> {}]
  /\ lastCall = NoCall
  /\ catalogJobs = [ c \in CatalogJobIds |-> NoCatalogJob ]

NextPlan == BuildPlanCall

\* catalogs with a table named like a Danger Set member but for the case
CaseTrees ==
  { <<ZipGuildsCaps>>, <<ZipGuilds, ZipGuildsCaps>>, <<ZipGuildsCaps, ZipSpawns>> }

CaseCatalogs == { fetchWorldTableCatalog(RemoteOf(t)).catalog : t \in CaseTrees }

CaseTableInputs == { N_guilds, N_Guilds, N_spawn_houses }

CaseGroupInputs == { <<>>, <<"Other / Misc">> }

\* buildUpdatePlan called on such a catalog
BuildPlanCaseCall ==
  /\ lastBuild = NoBuild
  /\ \E tables \in SeqsUpTo(CaseTableInputs, 2), groups \in CaseGroupInputs,
        includeChars \in BOOLEAN :
       lastBuild' = [called |-> TRUE, catalog |-> catalogByRef,
                     selectedTables |-> tables, selectedGroups |-> groups,
                     includeChars |-> includeChars, mode |-> "apply",
                     truncate |-> FALSE,
                     warned |-> excludedWarning(catalogByRef, tables, groups,
                                                includeChars),
                     plan |-> buildUpdatePlan(catalogByRef, tables, groups,
                                              includeChars, "apply", FALSE)]
  /\ UNCHANGED <<catalogByRef, jobs, queue, db, lastCall, catalogJobs>>

InitCase ==
  /\ catalogByRef \in CaseCatalogs
  /\ lastBuild = NoBuild
  /\ jobs = [ j \in JobIds |-> NoJob ]
  /\ queue = <<>>
  /\ db = [fk |-> TRUE, tx |-> FALSE, pending |-> {}, durable |-> {}]
  /\ lastCall = NoCall
  /\ catalogJobs = [ c \in CatalogJobIds |-> NoCatalogJob ]

NextCase == BuildPlanCaseCall

SpecCase == InitCase /\ [][NextCase]_vars

SpecPlan == InitPlan /\ [][NextPlan]_vars

\* the characters the splitter tells apart, and a letter and a blank
SplitAlphabet == {"a", " ", "\n", ";", "'", "\"", "\\", "-", "/", "*"}

\* dump fragments longer than MaxSqlLen
SplitExamples ==
  { <<"'", "a", ";", "b", "'">>,
    <<"'", "a", ";", "b", "'", ";", "a">>,
    <<"\"", ";", "\"", ";", "\n">>,
    <<"-", "-", ";", "\n", "a", ";">>,
    <<"/", "*", ";", "*", "/", "a", ";", "a">>,
    <<"'", "\\", "'", ";", "'", ";", " ">>,
    <<"\"", "\\", "\"", ";", "\"", ";">>,
    <<"'", "\\", "\\", "'", ";", "a">>,
    <<"-", "-", "'", "\n", ";", "a">>,
    <<"/", "*", "'", "*", "/", ";", "a">>,
    <<"'", "-", "-", "'", ";", "a">>,
    <<"\"", "/", "*", "\"", ";", "a">>,
    <<"/", "*", "-", "-", "\n", "*", "/", ";">>,
    <<"a", ";", "a", ";", "\n">> }

SqlTexts == SeqsUpTo(SplitAlphabet, MaxSqlLen) \cup SplitExamples

\* splitSqlStatements called on a text
SplitCall ==
  /\ lastCall = NoCall
  /\ \E sql \in SqlTexts :
       lastCall' = [fn |-> "splitSqlStatements", sql |-> sql,
                    out |-> splitSqlStatements(sql)]
  /\ UNCHANGED <<catalogByRef, lastBuild, jobs, queue, db, catalogJobs>>

NextSplit == SplitCall

SpecSplit == Init /\ [][NextSplit]_vars

\* both catalog builders called for the same ref against the same remote
\* answers, the progress builder with a sink
CatalogCall ==
  /\ lastCall = NoCall
  /\ \E remote \in Remotes, sink \in Sinks :
       lastCall' = [fn |-> "catalog", remote |-> remote, sink |-> sink,
                    batch |-> fetchWorldTableCatalog(remote),
                    progress |-> fetchWorldTableCatalogWithProgress(remote, sink),
                    quiet |-> fetchWorldTableCatalogWithProgress(remote, {})]
  /\ UNCHANGED <<catalogByRef, lastBuild, jobs, queue, db, catalogJobs>>

NextCatalog == CatalogCall

SpecCatalog == Init /\ [][NextCatalog]_vars

\* steps written by hand: the recorded entry is not in spawns.zip, which
\* has other *.sql entries; the recorded entry is not in docs.zip, which has
\* no *.sql entry
MovedSql == <<"m","o","v","e","d",".","s","q","l">>

GoneSql == <<"g","o","n","e",".","s","q","l">>

StepEntryMoved == planStep(catalogRow(ZipSpawns, Entry("", MovedSql), "c1"))

StepEntryGone == planStep(catalogRow(ZipEmpty, Entry("", GoneSql), "c1"))

HandMadePlans ==
  { [steps |-> <<StepEntryMoved, StepEntryGone>>,
     options |-> [includeChars |-> FALSE, mode |-> "apply", truncate |-> FALSE]] }

\* plans handed to applyPlan directly: no step, one step and two steps with
\* a mode applyPlan does not know, and plans of one and two steps it can
\* apply, one of them with replace and truncate
ApplyPlans ==
  UNION { { buildUpdatePlan(c, <<>>, <<>>, FALSE, "upsert", FALSE),
            buildUpdatePlan(c, <<N_spawn_npcs>>, <<>>, FALSE, "upsert", TRUE),
            buildUpdatePlan(c, <<N_guilds, N_spawn_npcs>>, <<>>, TRUE, "upsert", FALSE),
            buildUpdatePlan(c, <<N_spawn_npcs>>, <<>>, FALSE, "apply", FALSE),
            buildUpdatePlan(c, <<N_guilds, N_spawn_npcs>>, <<>>, TRUE, "apply", FALSE),
            buildUpdatePlan(c, <<>>, <<"Spawns & Placement">>, TRUE, "replace", TRUE) } :
          c \in RouterCatalogs }
    \cup HandMadePlans

\* applyPlan called once on the connection, outside the router
ApplyCall ==
  /\ \A j \in JobIds : jobs[j].status = "none"
  /\ \E plan \in ApplyPlans, logOk \in BOOLEAN :
       LET id   == CHOOSE free \in JobIds : TRUE
           job2 == newJob(plan, logOk)
       IN  /\ jobs' = [jobs EXCEPT ![id] = job2]
           /\ queue' = IF job2.pc \in DbOps THEN Append(queue, id) ELSE queue
  /\ UNCHANGED <<catalogByRef, lastBuild, db, lastCall, catalogJobs>>

NextApply ==
  \/ ApplyCall
  \/ DbExec
  \/ FetchDone

SpecApply == Init /\ [][NextApply]_vars

\* POST /start for the first job of the process
StartFirst ==
  /\ \A j \in JobIds : jobs[j].status = "none"
  /\ Start

\* GET /stream/:jobId for a job the router knows
Subscribe ==
  /\ \E j \in JobIds, s \in StreamIds :
       /\ jobs[j].status # "none"
       /\ jobs[j].subs[s].state = "idle"
       /\ jobs' = [jobs EXCEPT ![j] = subscribe(jobs[j], s)]
  /\ UNCHANGED <<catalogByRef, lastBuild, queue, db, lastCall, catalogJobs>>

\* req.on('close'): the client of a listening stream went away
Disconnect ==
  /\ \E j \in JobIds, s \in StreamIds :
       /\ jobs[j].subs[s].state = "listening"
       /\ jobs' = [jobs EXCEPT ![j] = cleanup(jobs[j], s)]
  /\ UNCHANGED <<catalogByRef, lastBuild, queue, db, lastCall, catalogJobs>>

NextStream ==
  \/ GetCatalog
  \/ StartFirst
  \/ DbExec
  \/ FetchDone
  \/ Subscribe
  \/ Disconnect

SpecStream == Init /\ [][NextStream]_vars

\* POST /catalog/start: a catalog job is created and its runner started
CatalogStart ==
  /\ \E c \in CatalogJobIds, remote \in JobRemotes :
       /\ catalogJobs[c].status = "none"
       /\ catalogJobs' = [catalogJobs EXCEPT
                            ![c] = [NoCatalogJob EXCEPT !.status = "running",
                                                        !.remote = remote]]
  /\ UNCHANGED <<catalogByRef, lastBuild, jobs, queue, db, lastCall>>

\* the builder of a running catalog job sends its next progress event
CatalogProgress ==
  /\ \E c \in CatalogJobIds :
       /\ catalogJobs[c].status = "running"
       /\ Len(catalogJobs[c].logs) < Len(builderRun(catalogJobs[c]).events)
       /\ catalogJobs' = [catalogJobs EXCEPT ![c] = onProgress(catalogJobs[c])]
  /\ UNCHANGED <<catalogByRef, lastBuild, jobs, queue, db, lastCall>>

\* the builder of a running catalog job returns or throws; a returned
\* catalog is cached for /start
CatalogSettle ==
  /\ \E c \in CatalogJobIds :
       /\ catalogJobs[c].status = "running"
       /\ Len(catalogJobs[c].logs) = Len(builderRun(catalogJobs[c]).events)
       /\ catalogJobs' = [catalogJobs EXCEPT ![c] = catalogSettle(catalogJobs[c])]
       /\ catalogByRef' = IF builderRun(catalogJobs[c]).error = "none"
                          THEN builderRun(catalogJobs[c]).catalog
                          ELSE catalogByRef
  /\ UNCHANGED <<lastBuild, jobs, queue, db, lastCall>>

\* GET /catalog/stream/:jobId for a job the router knows
CatalogSubscribe ==
  /\ \E c \in CatalogJobIds, s \in StreamIds :
       /\ catalogJobs[c].status # "none"
       /\ catalogJobs[c].subs[s].state = "idle"
       /\ catalogJobs' = [catalogJobs EXCEPT ![c] = catalogSubscribe(catalogJobs[c], s)]
  /\ UNCHANGED <<catalogByRef, lastBuild, jobs, queue, db, lastCall>>

\* req.on('close') of a listening catalog stream
CatalogDisconnect ==
  /\ \E c \in CatalogJobIds, s \in StreamIds :
       /\ catalogJobs[c].subs[s].state = "listening"
       /\ catalogJobs' = [catalogJobs EXCEPT ![c] = cleanup(catalogJobs[c], s)]
  /\ UNCHANGED <<catalogByRef, lastBuild, jobs, queue, db, lastCall>>

\* no job of either kind has been started
NoJobYet ==
  /\ \A j \in JobIds : jobs[j].status = "none"
  /\ \A c \in CatalogJobIds : catalogJobs[c].status = "none"

\* GET /catalog answered before the first job of the process
GetCatalogFirst == NoJobYet /\ GetCatalog

\* the first job of the process is a catalog job
CatalogStartFirst == NoJobYet /\ CatalogStart

\* the first job of the process is an update job
StartAlone == NoJobYet /\ Start

\* the first job of the process, of either kind, and the progress streams
\* opened on it
NextJobs ==
  \/ GetCatalogFirst
  \/ CatalogStartFirst
  \/ CatalogProgress
  \/ CatalogSettle
  \/ CatalogSubscribe
  \/ CatalogDisconnect
  \/ StartAlone
  \/ DbExec
  \/ FetchDone
  \/ Subscribe
  \/ Disconnect

SpecJobs == Init /\ [][NextJobs]_vars

\* a command waits on the connection; a download is under way; a running
\* builder has a progress event to send; a running builder has sent them all
DbBusy == queue # <<>>

Fetching == \E j \in JobIds : jobs[j].pc = "FETCH"

BuilderSends ==
  \E c \in CatalogJobIds :
    /\ catalogJobs[c].status = "running"
    /\ Len(catalogJobs[c].logs) < Len(builderRun(catalogJobs[c]).events)

BuilderEnds ==
  \E c \in CatalogJobIds :
    /\ catalogJobs[c].status = "running"
    /\ Len(catalogJobs[c].logs) = Len(builderRun(catalogJobs[c]).events)

\* the steps of the four actions told by what they change: the trace of the
\* job at the head of the queue or of a downloading job grows, a catalog job
\* logs a line, a running catalog job stops running
DbAnswered ==
  /\ queue # <<>>
  /\ Len(jobs'[Head(queue)].trace) > Len(jobs[Head(queue)].trace)

FetchAnswered ==
  \E j \in JobIds :
    jobs[j].pc = "FETCH" /\ Len(jobs'[j].trace) > Len(jobs[j].trace)

BuilderSent ==
  \E c \in CatalogJobIds :
    catalogJobs[c].status = "running"
      /\ Len(catalogJobs'[c].logs) > Len(catalogJobs[c].logs)

BuilderEnded ==
  \E c \in CatalogJobIds :
    catalogJobs[c].status = "running" /\ catalogJobs'[c].status # "running"

\* every awaited command, download and builder step settles: weak fairness
\* of DbExec, FetchDone, CatalogProgress and CatalogSettle, each written with
\* its enabling condition and with the change that tells its steps
SpecJobsLive ==
  /\ SpecJobs
  /\ ([]<>~DbBusy \/ []<><<DbAnswered>>_vars)
  /\ ([]<>~Fetching \/ []<><<FetchAnswered>>_vars)
  /\ ([]<>~BuilderSends \/ []<><<BuilderSent>>_vars)
  /\ ([]<>~BuilderEnds \/ []<><<BuilderEnded>>_vars)

\* the catalogJobId of a /start request: none, the catalog job's, an unknown one
StartCatalogJobIds == {"", "cat_1", "cat_0"}

\* request bodies of POST /start, with a selection of nothing, of a name the
\* catalog does not have, and of everything
StartRequestBodies ==
  StartBodies \cup
  { Body(<<>>, <<>>, FALSE, "apply", FALSE, FALSE),
    Body(<<N_quests>>, <<>>, FALSE, "apply", FALSE, FALSE),
    Body(<<>>, <<>>, FALSE, "apply", FALSE, TRUE) }

\* catalogByJob.has('job:' + id): set when the catalog job finished
cachedByJob(cjobs, id) == id \in DOMAIN cjobs /\ cjobs[id].status = "finished"

\* the cached catalog /start uses: catalogByJob.get('job:' + catalogJobId),
\* else catalogByRef.get('ref:' + ref); an empty array is a catalog found
startCatalog(cjobs, byRef, id) ==
  IF cachedByJob(cjobs, id) THEN builderRun(cjobs[id]).catalog ELSE byRef

\* POST /start, the whole handler: the cached catalog is looked up, the
\* request refused with 400 or the job created and run to its first await
StartRequest ==
  /\ lastCall = NoCall
  /\ \A j \in JobIds : jobs[j].status = "none"
  /\ \E body \in StartRequestBodies, cid \in StartCatalogJobIds, logOk \in BOOLEAN :
       LET catalog == startCatalog(catalogJobs, catalogByRef, cid)
           refused == startRejected(catalog, body)
           id      == CHOOSE free \in JobIds : jobs[free].status = "none"
           job2    == newJob(startPlan(catalog, body), logOk)
       IN  /\ lastCall' = [fn |-> "start", body |-> body, catalogJobId |-> cid,
                           catalog |-> catalog,
                           status |-> IF refused THEN 400 ELSE 200]
           /\ jobs' = IF refused THEN jobs ELSE [jobs EXCEPT ![id] = job2]
           /\ queue' = IF ~refused /\ job2.pc \in DbOps THEN Append(queue, id) ELSE queue
  /\ UNCHANGED <<catalogByRef, lastBuild, db, catalogJobs>>

\* catalogs cached by GET /catalog and by a catalog job, and one /start
\* request up to the first await of the job it creates
NextStart ==
  \/ GetCatalog
  \/ CatalogStartFirst
  \/ CatalogProgress
  \/ CatalogSettle
  \/ StartRequest

SpecStart == Init /\ [][NextStart]_vars

\* fetchZipBuffer called on its own with the replies of the two GETs
FetchCall ==
  /\ lastCall = NoCall
  /\ \E raw \in RawReplies, blob \in BlobReplies :
       lastCall' = [fn |-> "fetchZipBuffer", raw |-> raw, blob |-> blob,
                    out |-> fetchZipBuffer(raw, blob)]
  /\ UNCHANGED <<catalogByRef, lastBuild, jobs, queue, db, catalogJobs>>

NextFetch == FetchCall

SpecFetch == Init /\ [][NextFetch]_vars

\* table names handed to assignGroup: every prefix of the group table, every
\* prefix followed by a letter, and names in mixed case, of no group, or
\* matched by prefixes of several groups
GroupTableNames ==
  LET ps == UNION { Range(GROUP_PREFIXES[n].prefixes) : n \in DOMAIN GROUP_PREFIXES }
  IN  ps \cup { p \o <<"x">> : p \in ps } \cup
  { <<"q","u","e","s","t","_","r","e","w","a","r","d","s">>,
    <<"s","p","a","w","n","_","n","p","c","s">>,
    <<"t","o","t","a","l","l","y","_","u","n","k","n","o","w","n","_","x","y","z">>,
    <<"Q","u","e","s","t","_","R","e","w","a","r","d","s">>,
    <<"N","P","C","_","T","E","X","T","_","l","i","n","e","s">>,
    <<"n","p","c","_","t","e","x","t">>,
    <<"s","p","a","w","n","_","l","o","o","t","_","d","r","o","p","s">>,
    <<"w","a","y","p","o","i","n","t","_","l","i","s","t">>,
    <<"t","e","x","t","_","s","t","r","i","n","g","s">>,
    <<"t","e","x","t","s">>,
    <<>>,
    <<"Z","o","n","e","A","c","c","e","s","s">>,
    <<"x","q","u","e","s","t">>,
    <<"b","r","o","k","e","r","_","i","t","e","m","s">>,
    <<"i","t","e","m","_","a","p","p","e","a","r","a","n","c","e","_","x">>,
    <<"w","o","r","l","d","_","r","u","l","e","s">>,
    <<"q","u","e">>,
    <<"s">> }

\* assignGroup called on a table name
AssignGroupCall ==
  /\ lastCall = NoCall
  /\ \E tableName \in GroupTableNames :
       lastCall' = [fn |-> "assignGroup", tableName |-> tableName,
                    out |-> assignGroup(tableName)]
  /\ UNCHANGED <<catalogByRef, lastBuild, jobs, queue, db, catalogJobs>>

NextGroup == AssignGroupCall

SpecGroup == Init /\ [][NextGroup]_vars

\* dump texts with the words INSERT INTO in several shapes: plain, twice
\* and in mixed case, with a run of blanks and a line break between the
\* words, glued to other word characters, inside a string, absent
TransformTexts ==
  { <<"i","n","s","e","r","t"," ","i","n","t","o"," ","t",";">>,
    <<"I","N","S","E","R","T"," ","I","N","T","O"," ","a",";","I","n","s","e","r","t"," ","I","n","t","o"," ","b",";">>,
    <<"i","n","s","e","r","t"," "," ","\n"," ","i","n","t","o"," ","t">>,
    <<"x","i","n","s","e","r","t"," ","i","n","t","o"," ","t",";">>,
    <<"i","n","s","e","r","t"," ","i","n","t","o","x",";">>,
    <<"'","i","n","s","e","r","t"," ","i","n","t","o","'",";">>,
    <<"r","e","p","l","a","c","e"," ","i","n","t","o"," ","t",";">>,
    <<"a",";","b",";">>,
    <<"i","n","s","e","r","t","i","n","t","o"," ","t",";">>,
    <<>>,
    <<"i","n","s","e","r","t"," ","i","n","t","o">>,
    <<"_","i","n","s","e","r","t"," ","i","n","t","o"," ","x",";","i","n","s","e","r","t"," ","i","n","t","o"," ","y">> }

\* transformSqlForOptions called on a text, followed by the split
TransformCall ==
  /\ lastCall = NoCall
  /\ \E sql \in TransformTexts, table \in {N_guilds, N_quests},
        mode \in {"apply", "replace", "upsert"}, truncate \in BOOLEAN :
       LET options == [includeChars |-> FALSE, mode |-> mode, truncate |-> truncate]
           out == transformSqlForOptions(sql, table, options)
       IN  lastCall' = [fn |-> "transformSqlForOptions", sql |-> sql, table |-> table,
                        options |-> options, out |-> out,
                        stmts |-> IF out.ok THEN splitSqlStatements(out.text) ELSE <<>>]
  /\ UNCHANGED <<catalogByRef, lastBuild, jobs, queue, db, catalogJobs>>

NextTransform == TransformCall

SpecTransform == Init /\ [][NextTransform]_vars

(***************************************************************************)
(* Helpers for the properties: reading a job's trace.                      *)
(***************************************************************************)
Settled(j) == jobs[j].pc = "settled"

\* what the job put on the connection or fetched, and what came back: the
\* trace without the lines sent to the progress sink
Cmds(job) == SelectSeq(job.trace, LAMBDA e : e.op # "LOG")

\* positions of the trace where op was sent / came back with ph
At(tr, op, ph) == { p \in DOMAIN tr : tr[p].op = op /\ tr[p].ph = ph }

Has(tr, op, ph) == At(tr, op, ph) # {}

\* the progress sink took every line of the job without throwing
SinkQuiet(j) == ~Has(jobs[j].trace, "LOG", "err")

\* positions where this very event stands
Pos(tr, e) == { p \in DOMAIN tr : tr[p] = e }

\* the direct download answers 200 with the archive
RawArrives == [net |-> "ok", status |-> 200, data |-> TRUE]

BlobUnasked == [net |-> "error", status |-> 0, encoding |-> "none", content |-> FALSE]

\* the statements step k of the plan comes to when its archive loads
StmtsOfStep(plan, k) ==
  LET step == plan.steps[k]
      res  == loadSqlForStep(step, RawArrives, BlobUnasked)
      tr   == transformSqlForOptions(res.text, step.table, plan.options)
  IN  IF res.ok /\ tr.ok THEN splitSqlStatements(tr.text) ELSE <<>>

\* the SQL of step k can be prepared under the plan's options
StepTransforms(plan, k) ==
  LET step == plan.steps[k]
      res  == loadSqlForStep(step, RawArrives, BlobUnasked)
  IN  res.ok /\ transformSqlForOptions(res.text, step.table, plan.options).ok

\* the plans POST /start can hand to applyPlan
StartPlans ==
  { startPlan(c, body) : c \in RouterCatalogs, body \in StartBodies }

\* plan, step, statements of that step and whether it can be prepared, for
\* every plan that can run
StartPlanStmts ==
  UNION { { <<plan, k, StmtsOfStep(plan, k), StepTransforms(plan, k)>> :
              k \in DOMAIN plan.steps } : plan \in StartPlans }

ExpectedStmts(plan, k) ==
  (CHOOSE e \in StartPlanStmts : e[1] = plan /\ e[2] = k)[3]

Preparable(plan, k) ==
  (CHOOSE e \in StartPlanStmts : e[1] = plan /\ e[2] = k)[4]

\* indices of the statements of step k that are sent (not blank)
ExpectedIdx(plan, k) ==
  { n \in DOMAIN ExpectedStmts(plan, k) : trim(ExpectedStmts(plan, k)[n]) # <<>> }

\* every statement of step k has come back successfully before position p
StepDoneBefore(plan, tr, k, p) ==
  \A n \in ExpectedIdx(plan, k) :
    \E q \in Pos(tr, Ev("STMT", k, n, "ok")) : q < p

\* every step was loaded and prepared and every statement of every step
\* succeeded
AllStatementsOk(plan, tr) ==
  \A k \in DOMAIN plan.steps :
    /\ Pos(tr, Ev("FETCH", k, 0, "ok")) # {}
    /\ Preparable(plan, k)
    /\ StepDoneBefore(plan, tr, k, Len(tr) + 1)

(***************************************************************************)
(* C1.  If a statement of a step fails during applyPlan, then once         *)
(* applyPlan has settled applyPlan rejected, ROLLBACK was issued, COMMIT   *)
(* was never issued by the invocation, and, the ROLLBACK having succeeded, *)
(* nothing that any step of that plan wrote is durable.  (Stated for the   *)
(* invocations whose progress sink never threw.)                           *)
(***************************************************************************)
C1_FailedPlanLeavesNoData ==
  \A j \in JobIds :
    (Settled(j) /\ SinkQuiet(j) /\ Has(jobs[j].trace, "STMT", "err")) =>
      /\ jobs[j].outcome = "rejected"
      /\ ~Has(jobs[j].trace, "COMMIT", "send")
      /\ Has(jobs[j].trace, "ROLLBACK", "send")
      /\ Has(jobs[j].trace, "ROLLBACK", "ok") => \A w \in db.durable : w.job # j

(***************************************************************************)
(* C2.  Foreign-key enforcement is re-enabled whatever the outcome: an     *)
(* invocation that has switched enforcement off has issued the FK-enable   *)
(* command by the time it settles, as its last database command (also      *)
(* when opening the transaction failed).  (Stated for the invocations      *)
(* whose progress sink never threw.)                                       *)
(***************************************************************************)
C2_FkAlwaysReenabled ==
  \A j \in JobIds :
    (Settled(j) /\ SinkQuiet(j) /\ Has(jobs[j].trace, "FK0", "ok")) =>
      LET tr == Cmds(jobs[j])
      IN  tr[Len(tr)].op = "FK1" /\ tr[Len(tr)].ph \in {"ok", "err"}

(***************************************************************************)
(* C3.  The archive fetch of step k+1 is never started before every        *)
(* statement of step k has come back, and while a fetch is under way the   *)
(* job holds no decoded SQL of an earlier step.                            *)
(***************************************************************************)
C3_FetchAfterPreviousStep ==
  \A j \in JobIds :
    LET job == jobs[j]
        tr  == Cmds(jobs[j])
    IN  /\ \A p \in At(tr, "FETCH", "send") :
             tr[p].k > 1 =>
               /\ Pos(tr, Ev("FETCH", tr[p].k - 1, 0, "ok")) # {}
               /\ StepDoneBefore(job.plan, tr, tr[p].k - 1, p)
        /\ job.pc = "FETCH" => job.stmts = <<>>

\* a job is fetching its second step after running both statements of the first
C3_Witness ==
  \E j \in JobIds :
    /\ jobs[j].pc = "FETCH" /\ jobs[j].k = 2
    /\ Cardinality(At(jobs[j].trace, "STMT", "ok")) = 2

(***************************************************************************)
(* C5.  One transaction for the whole plan.                                *)
(*   original: START TRANSACTION is issued exactly once per invocation,    *)
(*     after the FK-disable command and before any fetch or statement,     *)
(*     and no COMMIT or ROLLBACK is issued between steps (stated for the   *)
(*     invocations whose progress sink never threw).                       *)
(*   amended: START TRANSACTION is issued at most once per invocation:     *)
(*     exactly once by every invocation whose FK-disable command           *)
(*     succeeded, and not at all by an invocation whose FK-disable command *)
(*     failed or was never issued; it is issued after the FK-disable       *)
(*     command and before any fetch or statement, and no COMMIT or         *)
(*     ROLLBACK is issued between steps.                                   *)
(***************************************************************************)
OneTransactionShape(tr) ==
  /\ Cardinality(At(tr, "START", "send")) <= 1
  /\ \A p \in At(tr, "START", "send") : \E q \in At(tr, "FK0", "ok") : q < p
  /\ \A p \in DOMAIN tr :
       tr[p].op \in {"FETCH", "STMT"} => \E q \in At(tr, "START", "send") : q < p
  /\ \A p \in At(tr, "COMMIT", "send") \cup At(tr, "ROLLBACK", "send") :
       \A q \in DOMAIN tr : q > p => tr[q].op \notin {"FETCH", "STMT"}

C5_OneTransactionOriginal ==
  \A j \in JobIds :
    /\ OneTransactionShape(jobs[j].trace)
    /\ (Settled(j) /\ SinkQuiet(j)) =>
         Cardinality(At(jobs[j].trace, "START", "send")) = 1

C5_OneTransaction ==
  \A j \in JobIds :
    /\ OneTransactionShape(jobs[j].trace)
    /\ Settled(j) =>
         Cardinality(At(jobs[j].trace, "START", "send"))
           = IF Has(jobs[j].trace, "FK0", "ok") THEN 1 ELSE 0

\* a two-step plan went through inside its single transaction
C5_Witness ==
  \E j \in JobIds :
    /\ Settled(j)
    /\ Has(jobs[j].trace, "COMMIT", "ok")
    /\ Pos(jobs[j].trace, Ev("FETCH", 2, 0, "ok")) # {}

(***************************************************************************)
(* C6.  Commit once on success.                                            *)
(*   original: if every statement of every step succeeds, applyPlan issues *)
(*     COMMIT exactly once, after the last statement of the last step,     *)
(*     issues no ROLLBACK, and resolves; it never resolves without a       *)
(*     successful COMMIT (stated for the invocations whose progress sink   *)
(*     never threw).                                                       *)
(*   amended: if every statement of every step succeeds, applyPlan issues  *)
(*     COMMIT at most once, after the last statement of the last step; if  *)
(*     that COMMIT succeeds it issues no ROLLBACK and resolves; if that    *)
(*     COMMIT fails, or is not issued because the progress sink threw on   *)
(*     the line announcing it, applyPlan issues ROLLBACK and rejects; it   *)
(*     never resolves without a successful COMMIT.                         *)
(***************************************************************************)
CommitShape(job, tr) ==
  /\ Cardinality(At(tr, "COMMIT", "send")) <= 1
  /\ \A p \in At(tr, "COMMIT", "send") :
       /\ AllStatementsOk(job.plan, SubSeq(tr, 1, p - 1))
       /\ tr[p - 1].ph = "ok"
       /\ tr[p - 1].op \in {"STMT", "FETCH"}
       /\ tr[p - 1].k = Len(job.plan.steps)
  /\ job.outcome = "resolved" => Has(tr, "COMMIT", "ok")

C6_CommitOnceOriginal ==
  \A j \in JobIds :
    LET tr == Cmds(jobs[j])
    IN  /\ CommitShape(jobs[j], tr)
        /\ (Settled(j) /\ SinkQuiet(j) /\ AllStatementsOk(jobs[j].plan, tr)) =>
             /\ Cardinality(At(tr, "COMMIT", "send")) = 1
             /\ ~Has(tr, "ROLLBACK", "send")
             /\ jobs[j].outcome = "resolved"

C6_CommitOnce ==
  \A j \in JobIds :
    LET tr == Cmds(jobs[j])
    IN  /\ CommitShape(jobs[j], tr)
        /\ (Settled(j) /\ AllStatementsOk(jobs[j].plan, tr)) =>
             \/ /\ Has(tr, "COMMIT", "ok")
                /\ ~Has(tr, "ROLLBACK", "send")
                /\ jobs[j].outcome = "resolved"
             \/ /\ Has(tr, "COMMIT", "err")
                /\ Has(tr, "ROLLBACK", "send")
                /\ jobs[j].outcome = "rejected"
             \/ /\ ~Has(tr, "COMMIT", "send")
                /\ jobs[j].thrown = SinkError
                /\ Has(tr, "ROLLBACK", "send")
                /\ jobs[j].outcome = "rejected"

\* a plan of two steps and three statements was committed and applyPlan resolved
C6_Witness ==
  \E j \in JobIds :
    /\ Settled(j) /\ jobs[j].outcome = "resolved"
    /\ Len(jobs[j].plan.steps) = 2
    /\ Cardinality(At(jobs[j].trace, "STMT", "ok")) = 3
    /\ Has(jobs[j].trace, "COMMIT", "ok")

(***************************************************************************)
(* C7.  Steps run in the plan's array order and the statements of a step   *)
(* in the order the splitter emitted them, one at a time: a statement is   *)
(* sent at most once, only when what the job awaited before it (the        *)
(* previous statement, or the load of its step) has come back, and after   *)
(* every earlier statement of its step and every statement of the earlier  *)
(* steps.                                                                  *)
(***************************************************************************)
C7_SequentialInOrder ==
  \A j \in JobIds :
    LET job == jobs[j]
        tr  == Cmds(jobs[j])
    IN  /\ \A p \in At(tr, "STMT", "send") :
             /\ Cardinality(Pos(tr, tr[p])) = 1
             /\ tr[p - 1].ph = "ok"
             /\ tr[p - 1].op \in {"STMT", "FETCH"}
             /\ trim(ExpectedStmts(job.plan, tr[p].k)[tr[p].i]) # <<>>
             /\ \A n \in ExpectedIdx(job.plan, tr[p].k) :
                  n < tr[p].i => \E q \in Pos(tr, Ev("STMT", tr[p].k, n, "ok")) : q < p
             /\ \A k \in 1..(tr[p].k - 1) : StepDoneBefore(job.plan, tr, k, p)
        /\ \A p \in At(tr, "FETCH", "send") :
             tr[p].k = Cardinality({ q \in At(tr, "FETCH", "send") : q <= p })
        /\ \A p \in DOMAIN tr :
             (tr[p].ph = "send" /\ p < Len(tr)) =>
               (tr[p + 1].op = tr[p].op /\ tr[p + 1].ph \in {"ok", "err"})

\* the statement of the second step is on the connection after both
\* statements of the first step
C7_Witness ==
  \E j \in JobIds :
    /\ jobs[j].pc = "STMT" /\ jobs[j].k = 2
    /\ Pos(jobs[j].trace, Ev("STMT", 1, 1, "ok")) # {}
    /\ Pos(jobs[j].trace, Ev("STMT", 1, 2, "ok")) # {}

(***************************************************************************)
(* C8.  No two applyPlan executions are in flight on the connection at     *)
(* the same time: between one execution's FK-disable and its settling no   *)
(* other execution has a command or a fetch under way.                     *)
(***************************************************************************)
InFlight(j) == jobs[j].pc \notin {"none", "settled"}

C8_OneExecutionAtATime ==
  \A a, b \in JobIds : (InFlight(a) /\ InFlight(b)) => a = b

(***************************************************************************)
(* Helpers for the properties of buildUpdatePlan, read off the recorded    *)
(* call.                                                                   *)
(***************************************************************************)
\* the row's group was selected, or its name was, letter case aside
Selected(b, row) ==
  \/ \E g \in DOMAIN b.selectedGroups : b.selectedGroups[g] = row.group
  \/ \E n \in DOMAIN b.selectedTables :
       toLowerCase(b.selectedTables[n]) = toLowerCase(row.table)

HasStep(b, table) == \E s \in DOMAIN b.plan.steps : b.plan.steps[s].table = table

\* catalog positions of the selected rows that name this table
SelectedAt(b, table) ==
  { n \in DOMAIN b.catalog : b.catalog[n].table = table /\ Selected(b, b.catalog[n]) }

FirstSelectedAt(b, table) ==
  CHOOSE n \in SelectedAt(b, table) : \A m \in SelectedAt(b, table) : n <= m

(***************************************************************************)
(* C4.  When includeDangerous is false no step of the plan names a table   *)
(* of the Danger Set, tables pulled in through a selected group included;  *)
(* when it is true every selected row whose table is in the Danger Set     *)
(* has a step.                                                             *)
(***************************************************************************)
C4_DangerFiltering ==
  lastBuild.called =>
    /\ ~lastBuild.includeChars =>
         \A s \in DOMAIN lastBuild.plan.steps :
           lastBuild.plan.steps[s].table \notin DANGEROUS_TABLES
    /\ lastBuild.includeChars =>
         \A n \in DOMAIN lastBuild.catalog :
           (Selected(lastBuild, lastBuild.catalog[n])
              /\ lastBuild.catalog[n].table \in DANGEROUS_TABLES)
             => HasStep(lastBuild, lastBuild.catalog[n].table)

\* a protected table came in through its group only and was dropped, while
\* the other table of the group got its step
C4_Witness ==
  /\ lastBuild.called /\ ~lastBuild.includeChars
  /\ lastBuild.selectedTables = <<>>
  /\ \E n \in DOMAIN lastBuild.catalog :
       /\ lastBuild.catalog[n].table = N_spawn_houses
       /\ N_spawn_houses \in DANGEROUS_TABLES
       /\ Selected(lastBuild, lastBuild.catalog[n])
  /\ ~HasStep(lastBuild, N_spawn_houses)
  /\ HasStep(lastBuild, N_spawn_npcs)

(***************************************************************************)
(* C9.  Selection is a union: a catalog row is chosen, i.e. its table gets *)
(* a step unless the danger filter drops it, if and only if its group is   *)
(* in selectedGroups or its table name, compared without regard to letter  *)
(* case, is in selectedTables; the names warned about are exactly those of *)
(* the chosen protected rows; a group selected alone gives a step for every*)
(* table of the group that is not filtered.                                *)
(***************************************************************************)
C9_SelectionIsUnion ==
  lastBuild.called =>
    /\ \A n \in DOMAIN lastBuild.catalog :
         HasStep(lastBuild, lastBuild.catalog[n].table) <=>
           /\ Selected(lastBuild, lastBuild.catalog[n])
           /\ lastBuild.includeChars
                \/ lastBuild.catalog[n].table \notin DANGEROUS_TABLES
    /\ ~lastBuild.includeChars =>
         Range(lastBuild.warned) =
           { lastBuild.catalog[n].table : n \in
               { m \in DOMAIN lastBuild.catalog :
                   /\ Selected(lastBuild, lastBuild.catalog[m])
                   /\ lastBuild.catalog[m].table \in DANGEROUS_TABLES } }

\* one row chosen by its group alone and another by a name written in
\* another letter case, both with a step
C9_Witness ==
  /\ lastBuild.called
  /\ lastBuild.selectedTables = <<N_QUESTS>>
  /\ lastBuild.selectedGroups = <<"Spawns & Placement">>
  /\ HasStep(lastBuild, N_quests)
  /\ HasStep(lastBuild, N_spawn_npcs)

(***************************************************************************)
(* C10.  The steps of a plan are a subsequence of the catalog in catalog   *)
(* order with at most one step per table name, and the step kept for a     *)
(* table is the first chosen catalog row of that name (so the step         *)
(* sequence is a function of catalog and selection).                       *)
(***************************************************************************)
C10_FirstOccurrenceSubsequence ==
  lastBuild.called =>
    LET steps == lastBuild.plan.steps
    IN  /\ \A s \in DOMAIN steps :
             /\ SelectedAt(lastBuild, steps[s].table) # {}
             /\ LET row == lastBuild.catalog[FirstSelectedAt(lastBuild, steps[s].table)]
                IN  /\ steps[s].zip = row.zip
                    /\ steps[s].entryName = row.entryName
                    /\ steps[s].group = row.group
        /\ \A s, u \in DOMAIN steps :
             s < u => /\ steps[s].table # steps[u].table
                      /\ FirstSelectedAt(lastBuild, steps[s].table)
                           < FirstSelectedAt(lastBuild, steps[u].table)

\* two archives carry the same table: one step, from the row that sorts first
C10_Witness ==
  /\ lastBuild.called
  /\ Cardinality(SelectedAt(lastBuild, N_quests)) = 2
  /\ \E s \in DOMAIN lastBuild.plan.steps :
       /\ lastBuild.plan.steps[s].table = N_quests
       /\ lastBuild.plan.steps[s].zip =
            lastBuild.catalog[FirstSelectedAt(lastBuild, N_quests)].zip
  /\ Len(lastBuild.plan.steps) = 1

(***************************************************************************)
(* Helpers for the properties of splitSqlStatements: the lexer of the      *)
(* specification, position by position, and the recorded call.            *)
(***************************************************************************)
\* lexer state in which each character from position p on is read, followed
\* by the state after the last character; the second character of "--",
\* "/*" and "*/" and a character consumed by a backslash are read in no state
RECURSIVE lexFrom(_, _, _)
lexFrom(sql, p, st) ==
  IF p > Len(sql) THEN <<st>>
  ELSE LET ch == sql[p]
           nx == charAt(sql, p + 1)
           one(to) == <<st>> \o lexFrom(sql, p + 1, to)
           two(tag, to) == IF p = Len(sql) THEN <<st, to>>
                           ELSE <<st, tag>> \o lexFrom(sql, p + 2, to)
       IN  CASE st = "InLineComment" ->
                  one(IF ch = "\n" THEN "Normal" ELSE st)
             [] st = "InBlockComment" ->
                  IF ch = "*" /\ nx = "/" THEN two("second", "Normal") ELSE one(st)
             [] st \in {"InSingleQuote", "InDoubleQuote"} ->
                  IF ch = "\\" THEN two("escaped", st)
                  ELSE IF (st = "InSingleQuote" /\ ch = "'")
                            \/ (st = "InDoubleQuote" /\ ch = "\"")
                       THEN one("Normal") ELSE one(st)
             [] OTHER ->
                  IF ch = "-" /\ nx = "-" THEN two("second", "InLineComment")
                  ELSE IF ch = "/" /\ nx = "*" THEN two("second", "InBlockComment")
                  ELSE IF ch = "'" THEN one("InSingleQuote")
                  ELSE IF ch = "\"" THEN one("InDoubleQuote")
                  ELSE one("Normal")

LexStates(sql) == lexFrom(sql, 1, "Normal")

\* quotes and block comments of the text are closed at its end
Balanced(sql) == LexStates(sql)[Len(sql) + 1] \in {"Normal", "InLineComment"}

\* positions of the semicolons read in Normal state
Terminators(sql) ==
  { p \in DOMAIN sql : sql[p] = ";" /\ LexStates(sql)[p] = "Normal" }

RECURSIVE Join(_)
Join(ss) == IF ss = <<>> THEN <<>> ELSE Head(ss) \o Join(Tail(ss))

\* position in the text of the last character of the n-th emitted statement
EndOf(out, n) == Len(Join(SubSeq(out, 1, n)))

SplitCalled == lastCall.fn = "splitSqlStatements"

(***************************************************************************)
(* C11.  Re-joining the emitted statements.                                *)
(*   original: for every text whose quotes and comments are balanced,      *)
(*     re-joining the statements the splitter emits, in order, reproduces  *)
(*     the text exactly.                                                   *)
(*   amended: for every text, re-joining the statements the splitter       *)
(*     emits, in order, reproduces the text up to its end or up to a       *)
(*     whitespace-only remainder after the last terminator, which is       *)
(*     dropped; nothing else is lost, added or reordered.                  *)
(***************************************************************************)
C11_RejoinExactOriginal ==
  (SplitCalled /\ Balanced(lastCall.sql)) => Join(lastCall.out) = lastCall.sql

C11_RejoinUpToTrailingBlank ==
  SplitCalled =>
    LET joined == Join(lastCall.out)
        sql    == lastCall.sql
    IN  /\ Len(joined) <= Len(sql)
        /\ joined = SubSeq(sql, 1, Len(joined))
        /\ \A p \in (Len(joined) + 1)..Len(sql) : sql[p] \in Whitespace
        /\ Len(joined) < Len(sql) =>
             (Len(joined) = 0 \/ Len(joined) \in Terminators(sql))

\* two statements were emitted and the newline after the last one was dropped
C11_Witness ==
  /\ SplitCalled
  /\ lastCall.sql = <<"a", ";", "a", ";", "\n">>
  /\ lastCall.out = << <<"a", ";">>, <<"a", ";">> >>

(***************************************************************************)
(* C12.  A statement ends at a semicolon only when the semicolon is read   *)
(* in Normal state, and the semicolon is part of the emitted statement:    *)
(* the emitted statements are the stretches of the text between            *)
(* successive Normal-state semicolons, each including its semicolon, and   *)
(* at most one last stretch without one; a semicolon in a quoted string    *)
(* or a comment ends nothing.                                              *)
(***************************************************************************)
C12_SplitOnlyAtNormalSemicolon ==
  SplitCalled =>
    LET sql == lastCall.sql
        out == lastCall.out
    IN  /\ \A n \in DOMAIN out :
             /\ EndOf(out, n) <= Len(sql)
             /\ out[n] = SubSeq(sql, EndOf(out, n - 1) + 1, EndOf(out, n))
             /\ out[n] # <<>>
             /\ n < Len(out) => EndOf(out, n) \in Terminators(sql)
             /\ EndOf(out, n) \in Terminators(sql) \/ EndOf(out, n) = Len(sql)
        /\ Terminators(sql) \subseteq { EndOf(out, n) : n \in DOMAIN out }

\* a semicolon inside a string literal stays inside its statement
C12_Witness ==
  /\ SplitCalled
  /\ lastCall.sql = <<"'", "a", ";", "b", "'", ";", "a">>
  /\ lastCall.out = << <<"'", "a", ";", "b", "'", ";">>, <<"a">> >>

(***************************************************************************)
(* C13.  When statement number j (0-based) of the step for table T fails,  *)
(* applyPlan rejects with an error whose meta.table is T, whose            *)
(* meta.stmtIndex is j, whose meta.preview is the failing statement with   *)
(* whitespace runs collapsed, at most 300 characters long, and whose code, *)
(* errno and sqlState are those of the driver error.                       *)
(***************************************************************************)
\* every run of whitespace replaced by one blank
RECURSIVE Collapsed(_)
Collapsed(s) ==
  IF s = <<>> THEN <<>>
  ELSE IF Head(s) \in Whitespace
       THEN <<" ">> \o Collapsed(trimStart(s))
       ELSE <<Head(s)>> \o Collapsed(Tail(s))

EnrichedFor(job, e) ==
  /\ job.outcome = "rejected"
  /\ job.thrown.table = job.plan.steps[e.k].table
  /\ job.thrown.stmtIndex = e.i - 1
  /\ job.thrown.preview = Collapsed(trim(ExpectedStmts(job.plan, e.k)[e.i]))
  /\ Len(job.thrown.preview) <= 300
  /\ job.thrown.driver \in StatementErrors
  /\ job.thrown.driver.code = e.code

C13_EnrichedErrorOnReject ==
  \A j \in JobIds :
    Settled(j) =>
      \A p \in At(jobs[j].trace, "STMT", "err") : EnrichedFor(jobs[j], jobs[j].trace[p])


(***************************************************************************)
(* Properties of the catalog builders, over SpecCatalog.                   *)
(***************************************************************************)
CatalogCalled == lastCall.fn = "catalog"

\* the two results of the call
Builds == { lastCall.batch, lastCall.progress }

\* the ref resolved and its tree was listed
Listed(remote) ==
  remote.status = 200 /\ remote.treeSha # "none" /\ remote.treeStatus = 200

\* archive and entry of every *.sql file of the archives that download and open
SqlEntriesOf(tree) ==
  UNION { { <<tree[z].name, tree[z].files[f].entry>> :
              f \in { g \in DOMAIN tree[z].files :
                        endsWithSql(tree[z].files[g].entry.file) } } :
          z \in { y \in DOMAIN tree : tree[y].fetch = "ok" } }

RowKeys(catalog) == { <<catalog[i].zip, catalog[i].entryName>> : i \in DOMAIN catalog }

\* C14: whatever the archives do (download or listing fails, no SQL entry,
\* n SQL entries), a build whose ref resolved and whose tree was listed
\* completes, with exactly one row per SQL entry of every archive that was
\* downloaded and listed, and no row for a failed or empty archive.
C14_ArchiveProblemsSkipped ==
  (CatalogCalled /\ Listed(lastCall.remote)) =>
    \A b \in Builds :
      /\ b.error = "none"
      /\ RowKeys(b.catalog) = SqlEntriesOf(lastCall.remote.tree)
      /\ Len(b.catalog) = Cardinality(SqlEntriesOf(lastCall.remote.tree))

C14_Witness ==
  /\ CatalogCalled
  /\ lastCall.remote.tree = <<ZipBroken, ZipSpawns>>
  /\ \A b \in Builds : b.error = "none" /\ Len(b.catalog) = 2

\* C15: a catalog returned by either builder is sorted by table ascending
\* (localeCompare), and every row carries the commit id the ref resolved to
\* at the start of the build.
C15_SortedAndOneCommit ==
  CatalogCalled =>
    \A b \in Builds :
      b.error = "none" =>
        /\ \A i, j \in DOMAIN b.catalog :
             i < j => localeCompare(b.catalog[i].table, b.catalog[j].table) <= 0
        /\ \A i \in DOMAIN b.catalog : b.catalog[i].commitSha = lastCall.remote.sha

C15_Witness ==
  /\ CatalogCalled
  /\ lastCall.remote.tree = <<ZipSpawns, ZipGuilds>>
  /\ lastCall.remote.sha = "c2"
  /\ \A b \in Builds :
       /\ Len(b.catalog) = 3
       /\ b.catalog[1].table = N_guilds
       /\ b.catalog[1].commitSha = "c2"

\* C16: for the same ref and the same remote answers the progress builder
\* and the batch builder fail in the same situations and otherwise return
\* the same rows in the same order.
C16_ProgressSameAsBatch ==
  CatalogCalled =>
    /\ lastCall.progress.error = lastCall.batch.error
    /\ lastCall.progress.catalog = lastCall.batch.catalog

C16_Witness ==
  /\ CatalogCalled
  /\ lastCall.remote.tree = <<ZipSpawns, ZipCorrupt>>
  /\ lastCall.progress.error = "none"
  /\ lastCall.progress.catalog = lastCall.batch.catalog
  /\ Len(lastCall.batch.catalog) = 2

\* C17: an exception thrown by the sink on any event is swallowed: the
\* progress builder asks for the same downloads, returns the same catalog
\* and ends the same way as with a sink that never throws.
C17_SinkExceptionsSwallowed ==
  CatalogCalled =>
    /\ lastCall.progress.fetches = lastCall.quiet.fetches
    /\ lastCall.progress.catalog = lastCall.quiet.catalog
    /\ lastCall.progress.error = lastCall.quiet.error

C17_Witness ==
  /\ CatalogCalled
  /\ lastCall.sink = ProgressTypes
  /\ lastCall.progress.events = <<>>
  /\ Len(lastCall.progress.fetches) = 2
  /\ Len(lastCall.progress.catalog) >= 1
  /\ Len(lastCall.quiet.events) >= 6


(***************************************************************************)
(* Properties of the value buildUpdatePlan returns, over SpecPlan.         *)
(***************************************************************************)
NoRowChosen(b) == \A n \in DOMAIN b.catalog : ~Selected(b, b.catalog[n])

\* C19: buildUpdatePlan returns a plan for every catalog and every lists of
\* table and group names; the plan echoes the options passed in, and when
\* no catalog row is chosen (nothing selected, or nothing matches) its
\* steps are empty.
C19_EmptySelectionEmptyPlan ==
  lastBuild.called =>
    /\ {"steps", "options"} \subseteq DOMAIN lastBuild.plan
    /\ lastBuild.plan.options =
         [includeChars |-> lastBuild.includeChars, mode |-> lastBuild.mode,
          truncate |-> lastBuild.truncate]
    /\ NoRowChosen(lastBuild) => lastBuild.plan.steps = <<>>

\* a name that matches no row of a catalog that has rows, options not the
\* defaults
C19_Witness ==
  /\ lastBuild.called
  /\ lastBuild.catalog # <<>>
  /\ lastBuild.selectedTables = <<N_quests>>
  /\ lastBuild.selectedGroups = <<>>
  /\ NoRowChosen(lastBuild)
  /\ lastBuild.plan.steps = <<>>
  /\ lastBuild.plan.options = [includeChars |-> TRUE, mode |-> "replace", truncate |-> TRUE]

\* tables of the chosen rows that the danger filter dropped
Dropped(b) ==
  IF b.includeChars THEN {}
  ELSE { b.catalog[n].table : n \in
           { m \in DOMAIN b.catalog :
               Selected(b, b.catalog[m]) /\ b.catalog[m].table \in DANGEROUS_TABLES } }

\* table names the returned value reports as excluded
ReportedExcluded(plan) ==
  IF "excluded" \in DOMAIN plan THEN Range(plan.excluded) ELSE {}

\* C20: the names of the tables the danger filter dropped are reported to
\* the caller in what buildUpdatePlan returns.
C20_DroppedNamesReported ==
  lastBuild.called => Dropped(lastBuild) \subseteq ReportedExcluded(lastBuild.plan)


(***************************************************************************)
(* Properties of applyPlan on a plan whose mode it does not know, over     *)
(* SpecApply.                                                              *)
(***************************************************************************)
UnsupportedMode(j) ==
  /\ jobs[j].status # "none"
  /\ jobs[j].plan.options.mode \notin {"apply", "replace"}

\* no command and no download of the job came back with an error
NothingFailed(j) == \A p \in DOMAIN jobs[j].trace : jobs[j].trace[p].ph # "err"

\* C18 as stated: applyPlan on a plan of unsupported mode fails with the
\* unsupported-mode error, sends no statement and does not commit.  (Stated
\* for the invocations in which the database, the downloads and the
\* progress sink all worked.)
C18_UnsupportedModeFails ==
  \A j \in JobIds :
    (UnsupportedMode(j) /\ Settled(j) /\ NothingFailed(j)) =>
      /\ jobs[j].outcome = "rejected"
      /\ jobs[j].thrown.kind = "mode"
      /\ ~Has(jobs[j].trace, "STMT", "send")
      /\ ~Has(jobs[j].trace, "COMMIT", "send")

\* C18: applyPlan on a plan of unsupported mode never sends a statement of
\* a step and leaves no data behind.  If the plan has a step the
\* invocation is rejected without sending COMMIT, and the error is the
\* unsupported-mode error when the first archive loaded and the progress
\* sink never threw.  A plan without steps is committed and resolves.
C18_UnsupportedModeWritesNothing ==
  \A j \in JobIds :
    UnsupportedMode(j) =>
      /\ ~Has(jobs[j].trace, "STMT", "send")
      /\ \A w \in db.durable \cup db.pending : w.job # j
      /\ (Settled(j) /\ jobs[j].plan.steps # <<>>) =>
           /\ jobs[j].outcome = "rejected"
           /\ ~Has(jobs[j].trace, "COMMIT", "send")
           /\ (SinkQuiet(j) /\ Has(jobs[j].trace, "FETCH", "ok")) =>
                jobs[j].thrown.kind = "mode"
      /\ (Settled(j) /\ jobs[j].plan.steps = <<>> /\ SinkQuiet(j)
            /\ Has(jobs[j].trace, "COMMIT", "ok")) =>
           jobs[j].outcome = "resolved"

\* a two-step plan of unsupported mode stopped at its first step
C18_Witness ==
  \E j \in JobIds :
    /\ UnsupportedMode(j) /\ Settled(j)
    /\ Len(jobs[j].plan.steps) = 2
    /\ jobs[j].thrown.kind = "mode"
    /\ Has(jobs[j].trace, "ROLLBACK", "ok")
    /\ Cardinality(At(jobs[j].trace, "FETCH", "send")) = 1


(***************************************************************************)
(* Properties of the progress stream of an update job, over SpecStream.    *)
(***************************************************************************)
\* the job record without the responses that listen to it
CoreOf(job) == [job EXCEPT !.subs = NoJob.subs]

CoreJobs == [ j \in JobIds |-> CoreOf(jobs[j]) ]

\* the step the connection's reply makes the job take when nobody listens
CoreDbExec ==
  /\ queue # <<>>
  /\ LET j == Head(queue)
     IN  \E reply \in {NoDriverError} \cup DriverErrors(jobs[j].pc), logOk \in BOOLEAN :
           LET ok   == reply = NoDriverError
               job2 == afterReply([CoreOf(jobs[j]) EXCEPT !.err = reply], ok, logOk)
           IN  /\ db' = IF ok THEN dbApply(db, j, jobs[j]) ELSE db
               /\ CoreJobs' = [CoreJobs EXCEPT ![j] = job2]
               /\ queue' = Tail(queue) \o (IF job2.pc \in DbOps THEN <<j>> ELSE <<>>)

\* the step a settled download makes the job take when nobody listens
CoreFetchDone ==
  \E j \in JobIds :
    /\ jobs[j].pc = "FETCH"
    /\ \E raw \in RawOutcomes, blob \in BlobOutcomes, logOk \in BOOLEAN :
         LET job2 == afterFetch(CoreOf(jobs[j]),
                                loadSqlForStep(jobs[j].plan.steps[jobs[j].k], raw, blob),
                                logOk)
         IN  /\ CoreJobs' = [CoreJobs EXCEPT ![j] = job2]
             /\ queue' = IF job2.pc \in DbOps THEN Append(queue, j) ELSE queue
             /\ db' = db

\* what a stream that was written a terminal event has received
StreamsComplete ==
  \A j \in JobIds, s \in StreamIds :
    jobs[j].subs[s].last # "none" =>
      /\ Settled(j)
      /\ jobs[j].subs[s].lines = logsOf(jobs[j])
      /\ jobs[j].subs[s].last = IF jobs[j].status = "finished" THEN "done" ELSE "fail"

\* a running job waits for the connection or for a download, listened to or not
NeverStalled ==
  \A j \in JobIds :
    jobs[j].status = "running" =>
      jobs[j].pc = "FETCH" \/ \E q \in DOMAIN queue : queue[q] = j

SentAfter(tr, p) ==
  LET later == SelectSeq(SubSeq(tr, p + 1, Len(tr)), LAMBDA e : e.ph = "send")
  IN  [ n \in DOMAIN later |-> later[n].op ]

\* positions where a step failed: a statement or a download came back with
\* an error, or the text that came back was refused by the transform
StepFailures(job) ==
  LET tr == Cmds(job)
  IN  { p \in DOMAIN tr :
          \/ tr[p].op \in {"STMT", "FETCH"} /\ tr[p].ph = "err"
          \/ /\ tr[p].op = "FETCH" /\ tr[p].ph = "ok"
             /\ ~transformSqlForOptions(<<>>, <<>>, job.plan.options).ok }

\* C22: after the first failing statement, download or transform of a step
\* no further archive is fetched and no further statement is sent; what is
\* issued afterwards is ROLLBACK and then the FK re-enable, and nothing else.
C22_NothingAfterFailure ==
  \A j \in JobIds :
    \A p \in StepFailures(jobs[j]) :
      LET after == SentAfter(Cmds(jobs[j]), p)
      IN  /\ \A n \in DOMAIN after : after[n] \in {"ROLLBACK", "FK1"}
          /\ Settled(j) => after = <<"ROLLBACK", "FK1">>

\* the second statement of the first of two steps failed
C22_Witness ==
  \E j \in JobIds :
    /\ Settled(j)
    /\ Len(jobs[j].plan.steps) = 2
    /\ \E p \in StepFailures(jobs[j]) :
         /\ Cmds(jobs[j])[p] = [Ev("STMT", 1, 2, "err") EXCEPT !.code = "ER_DUP_ENTRY"]
         /\ SentAfter(Cmds(jobs[j]), p) = <<"ROLLBACK", "FK1">>
    /\ Cardinality(At(jobs[j].trace, "FETCH", "send")) = 1


\* C23: when a statement fails, the error line of that failure (step and
\* statement of the failed command, the driver's code) is handed to the log
\* sink right after the failure came back, before ROLLBACK is issued and
\* so before applyPlan rejects.
C23_ErrorLineBeforeRollback ==
  \A j \in JobIds :
    LET tr == jobs[j].trace
    IN  \A p \in At(tr, "STMT", "err") :
          /\ p + 2 <= Len(tr)
          /\ tr[p + 1].op = "LOG"
          /\ tr[p + 1].k = tr[p].k /\ tr[p + 1].i = tr[p].i
          /\ tr[p + 1].code = tr[p].code
          /\ tr[p + 2] = Ev("ROLLBACK", tr[p].k, tr[p].i, "send")
          /\ Settled(j) => jobs[j].outcome = "rejected"

\* the second statement of the second step failed with a syntax error and
\* the sink took the line
C23_Witness ==
  \E j \in JobIds :
    /\ Settled(j)
    /\ \E p \in At(jobs[j].trace, "STMT", "err") :
         /\ jobs[j].trace[p].k = 2
         /\ jobs[j].trace[p].code = "ER_PARSE_ERROR"
         /\ jobs[j].trace[p + 1] =
              [Ev("LOG", 2, jobs[j].trace[p].i, "ok") EXCEPT !.code = "ER_PARSE_ERROR"]
         /\ jobs[j].thrown.kind = "sql"


\* C24: when ROLLBACK itself fails after a step failure, the FK re-enable
\* is the next command issued, and applyPlan rejects with the error of the
\* step: for a failed statement the enriched error of that statement, for
\* a failed download or transform that error; never the error of ROLLBACK.
C24_RollbackBestEffort ==
  \A j \in JobIds :
    LET tr == Cmds(jobs[j])
    IN  \A p \in At(tr, "ROLLBACK", "err") :
          StepFailures(jobs[j]) # {} =>
            /\ p + 1 <= Len(tr)
            /\ tr[p + 1].op = "FK1" /\ tr[p + 1].ph = "send"
            /\ jobs[j].thrown.kind \in {"sql", "load", "mode"}
            /\ jobs[j].thrown.kind = "sql" =>
                 \E f \in At(tr, "STMT", "err") :
                   /\ jobs[j].thrown.driver.code = tr[f].code
                   /\ jobs[j].thrown.table = jobs[j].plan.steps[tr[f].k].table
            /\ Settled(j) => jobs[j].outcome = "rejected"


\* every database command and every download of the job came back without
\* an error
CommandsAllOk(j) == \A p \in DOMAIN Cmds(jobs[j]) : Cmds(jobs[j])[p].ph # "err"

\* C25: what the progress sink throws never enters the pipeline: applyPlan
\* never rejects with the sink's exception, and an invocation whose
\* commands and downloads all succeeded sends COMMIT and resolves, as it
\* does with a sink that does not throw.
C25_SinkNeverPropagates ==
  \A j \in JobIds :
    /\ jobs[j].thrown.kind # "sink"
    /\ (Settled(j) /\ CommandsAllOk(j)
          /\ transformSqlForOptions(<<>>, <<>>, jobs[j].plan.options).ok) =>
         /\ Has(jobs[j].trace, "COMMIT", "ok")
         /\ jobs[j].outcome = "resolved"


(***************************************************************************)
(* Properties of fetchZipBuffer, over SpecFetch.                           *)
(***************************************************************************)
FetchCalled == lastCall.fn = "fetchZipBuffer"

\* the direct download succeeded: answered 200 with a body
RawSucceeded(raw) == raw.net = "ok" /\ raw.status = 200 /\ raw.data

\* C27 as stated: the direct download is tried first and its bytes are
\* returned without the fallback when it succeeds; the fallback is called
\* only after a non-success status or a network error of the direct
\* download; the call fails only when the fallback returns a non-success
\* status or a payload that is not base64.
C27_FetchFailsOnlyOnBlobAnswer ==
  FetchCalled =>
    /\ lastCall.out.calls[1] = "raw"
    /\ RawSucceeded(lastCall.raw) => (lastCall.out.ok /\ lastCall.out.calls = <<"raw">>)
    /\ ~lastCall.out.ok =>
         /\ lastCall.blob.net = "ok"
         /\ lastCall.blob.status # 200 \/ lastCall.blob.encoding # "base64"

\* C27: the direct download is tried first and its bytes are returned
\* without the fallback when it answers 200 with a body; otherwise (network
\* error, another status, no body) the fallback is called; the call fails
\* exactly when the fallback was called and raised a network error,
\* answered a status other than 200, or a payload whose encoding is not
\* base64.
C27_FetchRawThenBlob ==
  FetchCalled =>
    /\ lastCall.out.calls[1] = "raw"
    /\ RawSucceeded(lastCall.raw) =>
         /\ lastCall.out.ok /\ lastCall.out.calls = <<"raw">>
         /\ lastCall.out.bytes = "archive"
    /\ ~RawSucceeded(lastCall.raw) => lastCall.out.calls = <<"raw", "blob">>
    /\ ~lastCall.out.ok <=>
         /\ ~RawSucceeded(lastCall.raw)
         /\ \/ lastCall.blob.net = "error"
            \/ lastCall.blob.status # 200
            \/ lastCall.blob.encoding # "base64"

\* the direct download failed on the network and the fallback gave the bytes
C27_Witness ==
  /\ FetchCalled
  /\ lastCall.raw.net = "error"
  /\ lastCall.blob = [net |-> "ok", status |-> 200, encoding |-> "base64", content |-> TRUE]
  /\ lastCall.out = [ok |-> TRUE, calls |-> <<"raw", "blob">>, bytes |-> "archive"]


(***************************************************************************)
(* Properties of the JIT load of a step, over SpecApply.                   *)
(***************************************************************************)
FilesOf(step) == ZipByName(step.zip).files

RecordedAt(step) ==
  { f \in DOMAIN FilesOf(step) : FilesOf(step)[f].entry = step.entryName }

SqlSuffixedAt(step) ==
  { f \in DOMAIN FilesOf(step) : endsWithSql(FilesOf(step)[f].entry.file) }

\* the text the step is to run: the recorded entry's if the archive has it,
\* otherwise the first SQL-suffixed entry's
ExpectedText(step) ==
  IF RecordedAt(step) # {}
  THEN FilesOf(step)[CHOOSE f \in RecordedAt(step) : TRUE].text
  ELSE FilesOf(step)[CHOOSE f \in SqlSuffixedAt(step) :
                       \A g \in SqlSuffixedAt(step) : f <= g].text

BlobSucceeded(blob) ==
  blob.net = "ok" /\ blob.status = 200 /\ blob.encoding = "base64"

\* C26: whatever the two GETs answer while a job waits for a step's
\* archive: if both retrieval paths fail, or the archive has neither the
\* recorded entry nor a SQL-suffixed one, applyPlan goes to ROLLBACK with
\* the load error of that step; if the archive arrives and has an entry,
\* the text loaded is the recorded entry's, else the first SQL-suffixed
\* entry's.  A job whose download failed has sent no statement of that
\* step, sends no COMMIT and ends rejected with the load error.
C26_LoadFailureIsFatal ==
  \A j \in JobIds :
    /\ jobs[j].pc = "FETCH" =>
         LET step == jobs[j].plan.steps[jobs[j].k]
         IN  \A raw \in RawReplies, blob \in BlobReplies, logOk \in BOOLEAN :
               LET res  == loadSqlForStep(step, raw, blob)
                   next == afterFetch(jobs[j], res, logOk)
               IN  /\ ((~RawSucceeded(raw) /\ ~BlobSucceeded(blob))
                         \/ RecordedAt(step) \cup SqlSuffixedAt(step) = {}) =>
                        /\ ~res.ok
                        /\ next.pc = "ROLLBACK"
                        /\ next.thrown = Err("load", step.table, -1)
                        /\ ~Has(next.trace, "COMMIT", "send")
                   /\ (RawSucceeded(raw)
                         /\ RecordedAt(step) \cup SqlSuffixedAt(step) # {}) =>
                        (res.ok /\ res.text = ExpectedText(step))
    /\ \A p \in At(jobs[j].trace, "FETCH", "err") :
         LET k == jobs[j].trace[p].k
         IN  /\ \A q \in DOMAIN jobs[j].trace :
                  jobs[j].trace[q].op = "STMT" => jobs[j].trace[q].k # k
             /\ jobs[j].thrown = Err("load", jobs[j].plan.steps[k].table, -1)
             /\ ~Has(jobs[j].trace, "COMMIT", "send")
             /\ Settled(j) => jobs[j].outcome = "rejected"

\* the first step ran the first SQL entry of an archive that lacks the
\* recorded one; the second step's archive has no SQL entry at all
C26_Witness ==
  \E j \in JobIds :
    /\ Settled(j)
    /\ jobs[j].plan.steps = <<StepEntryMoved, StepEntryGone>>
    /\ Cardinality(At(jobs[j].trace, "STMT", "ok")) = 2
    /\ \E p \in At(jobs[j].trace, "FETCH", "err") : jobs[j].trace[p].k = 2
    /\ jobs[j].thrown.kind = "load"
    /\ Has(jobs[j].trace, "ROLLBACK", "ok")


(***************************************************************************)
(* Properties of the transform as it shows in the execution, over          *)
(* SpecApply.                                                              *)
(***************************************************************************)
\* the job's current step has its statements loaded
StepLoaded(j) == jobs[j].k >= 1 /\ jobs[j].stmts # <<>>

TruncateOf(table) == TruncatePrefix \o table \o <<Backquote, ";">>

\* the first statement of step k is sent before any other of the step
FirstSentFirst(j) ==
  \A p \in At(jobs[j].trace, "STMT", "send") :
    jobs[j].trace[p].i > 1 =>
      \E q \in At(jobs[j].trace, "STMT", "ok") :
        q < p /\ jobs[j].trace[q].k = jobs[j].trace[p].k /\ jobs[j].trace[q].i = 1

\* C28 without its clause on the transaction: with truncate set the first
\* statement of every loaded step is the TRUNCATE of the step's own table
\* and is sent before the others; without it no statement is a TRUNCATE.
TruncateComesFirst ==
  \A j \in JobIds :
    StepLoaded(j) =>
      /\ jobs[j].plan.options.truncate =>
           /\ jobs[j].stmts[1] = TruncateOf(jobs[j].plan.steps[jobs[j].k].table)
           /\ \A n \in 2..Len(jobs[j].stmts) : ~isTruncate(trim(jobs[j].stmts[n]))
           /\ FirstSentFirst(j)
      /\ ~jobs[j].plan.options.truncate =>
           \A n \in DOMAIN jobs[j].stmts : ~isTruncate(trim(jobs[j].stmts[n]))

\* C28: with truncate set, the first statement executed for every step is
\* the TRUNCATE of that step's own table, before any statement of the
\* body, and it is executed while the plan's transaction is open; without
\* truncate no TRUNCATE is added.
C28_TruncateFirstInTransaction ==
  /\ TruncateComesFirst
  /\ \A j \in JobIds :
       (jobs[j].pc = "STMT" /\ isTruncate(trim(jobs[j].stmts[jobs[j].i]))) => db.tx


(***************************************************************************)
(* Properties of transformSqlForOptions, over SpecTransform.               *)
(***************************************************************************)
TransformCalled == lastCall.fn = "transformSqlForOptions"

\* the word w, in any letter case, stands at s[i..], not glued to a word
\* character on either side
WordAt(s, i, w) ==
  /\ i >= 1 /\ i + Len(w) - 1 <= Len(s)
  /\ toLowerCase(SubSeq(s, i, i + Len(w) - 1)) = w
  /\ i = 1 \/ ~isWordChar(s[i - 1])
  /\ i + Len(w) > Len(s) \/ ~isWordChar(s[i + Len(w)])

\* <<i, e>>: INSERT at i, then only blanks, then INTO ending at e
InsertIntos(s) ==
  { ie \in (DOMAIN s) \X (DOMAIN s) :
      /\ WordAt(s, ie[1], W_insert)
      /\ WordAt(s, ie[2] - 3, W_into)
      /\ ie[2] - 3 > ie[1] + 6
      /\ \A b \in (ie[1] + 6)..(ie[2] - 4) : s[b] \in Whitespace }

\* positions where the literal REPLACE INTO stands
ReplaceIntos(s) ==
  { i \in DOMAIN s : i + 11 <= Len(s) /\ SubSeq(s, i, i + 11) = ReplaceInto }

RECURSIVE SumLen(_)
SumLen(S) ==
  IF S = {} THEN 0
  ELSE LET ie == CHOOSE x \in S : TRUE
       IN  (ie[2] - ie[1] + 1) + SumLen(S \ {ie})

\* the text handed to the transform, after the TRUNCATE line if one is asked
Prefixed(c) ==
  IF c.options.truncate
  THEN TruncatePrefix \o c.table \o <<Backquote, ";", "\n">> \o c.sql
  ELSE c.sql

OpensWithQuote(sql) == sql # <<>> /\ sql[1] \in {"'", "\""}

\* number of backslashes that stand in a row just before position p, the
\* opening quote not counted
RECURSIVE SlashRun(_, _)
SlashRun(sql, p) ==
  IF p > 2 /\ sql[p - 1] = "\\" THEN 1 + SlashRun(sql, p - 1) ELSE 0

\* positions of the matching quote that no backslash escapes
Unescaped(sql) ==
  { p \in 2..Len(sql) : sql[p] = sql[1] /\ SlashRun(sql, p) % 2 = 0 }

\* the string is closed in the text
Closed(sql) == Unescaped(sql) # {}

ClosingQuote(sql) == CHOOSE p \in Unescaped(sql) : \A q \in Unescaped(sql) : p <= q

\* C30: inside a single- or double-quoted string a backslash and the
\* character after it are copied as they are and leave the string open: an
\* escaped quote does not close it and a semicolon after it ends no
\* statement; only the matching quote that is not escaped closes it, and a
\* semicolon right after that quote ends the statement.
C30_BackslashEscapesInStrings ==
  (SplitCalled /\ OpensWithQuote(lastCall.sql)) =>
    LET sql == lastCall.sql
        out == lastCall.out
    IN  IF Closed(sql)
        THEN LET c == ClosingQuote(sql)
             IN  /\ out # <<>>
                 /\ Len(out[1]) >= c
                 /\ SubSeq(out[1], 1, c) = SubSeq(sql, 1, c)
                 /\ (c < Len(sql) /\ sql[c + 1] = ";") =>
                      out[1] = SubSeq(sql, 1, c + 1)
        ELSE out = <<sql>>

\* the quote after the backslash leaves the string open, the semicolon
\* after it ends nothing, the next quote closes the string
C30_Witness ==
  /\ SplitCalled
  /\ lastCall.sql = <<"'", "\\", "'", ";", "'", ";", " ">>
  /\ ClosingQuote(lastCall.sql) = 5
  /\ lastCall.out = << <<"'", "\\", "'", ";", "'", ";">> >>


(***************************************************************************)
(* Comments, over SpecSplit: texts that open with "--", with "/*" or with  *)
(* a quote, so that the comment or string starts at the first character.   *)
(***************************************************************************)
OpensWith(sql, a, b) == Len(sql) >= 2 /\ sql[1] = a /\ sql[2] = b

\* positions of the newlines after "--"
LineEnds(sql) == { p \in 3..Len(sql) : sql[p] = "\n" }

\* positions of the "/" of a "*/" after "/*"
BlockEnds(sql) == { p \in 4..Len(sql) : sql[p - 1] = "*" /\ sql[p] = "/" }

Least(S) == CHOOSE p \in S : \A q \in S : p <= q

\* the first statement holds the text up to position e as it is, and a
\* semicolon right after e ends it
CopiedThrough(sql, out, e) ==
  /\ out # <<>>
  /\ Len(out[1]) >= e
  /\ SubSeq(out[1], 1, e) = SubSeq(sql, 1, e)
  /\ (e < Len(sql) /\ sql[e + 1] = ";") => out[1] = SubSeq(sql, 1, e + 1)

\* a comment opener stands inside the string the text opens with
OpenerInString(sql) ==
  /\ OpensWithQuote(sql) /\ Closed(sql)
  /\ \E p \in 2..(ClosingQuote(sql) - 2) :
       <<sql[p], sql[p + 1]>> \in { <<"-", "-">>, <<"/", "*">> }

\* C31: "--" read in Normal state opens a line comment that only the next
\* newline ends, and "/*" a block comment that only "*/" ends; the newline
\* and the "*/" stay in the output; whatever stands in the comment,
\* semicolons and quotes included, ends no statement and opens no string;
\* "--" and "/*" inside a quoted string open no comment.
C31_CommentsEnterAndLeave ==
  SplitCalled =>
    LET sql == lastCall.sql
        out == lastCall.out
    IN  /\ OpensWith(sql, "-", "-") =>
             IF LineEnds(sql) = {} THEN out = <<sql>>
             ELSE CopiedThrough(sql, out, Least(LineEnds(sql)))
        /\ OpensWith(sql, "/", "*") =>
             IF BlockEnds(sql) = {} THEN out = <<sql>>
             ELSE CopiedThrough(sql, out, Least(BlockEnds(sql)))
        /\ OpenerInString(sql) => CopiedThrough(sql, out, ClosingQuote(sql))

\* a quote in a line comment opens no string: the semicolon after the
\* newline ends the first statement
C31_Witness ==
  /\ SplitCalled
  /\ lastCall.sql = <<"-", "-", "'", "\n", ";", "a">>
  /\ lastCall.out = << <<"-", "-", "'", "\n", ";">>, <<"a">> >>


(***************************************************************************)
(* Empty fragments, over SpecSplit.                                        *)
(***************************************************************************)
\* the n-th emitted statement without the semicolon that ended it
BodyOf(sql, out, n) ==
  IF EndOf(out, n) \in Terminators(sql)
  THEN SubSeq(out[n], 1, Len(out[n]) - 1)
  ELSE out[n]

\* C32: every emitted statement holds statement content other than
\* whitespace: the text between two terminators that follow each other, or
\* that only whitespace separates, gives no statement.
C32_NoEmptyFragment ==
  SplitCalled =>
    \A n \in DOMAIN lastCall.out :
      trim(BodyOf(lastCall.sql, lastCall.out, n)) # <<>>

\* what the code keeps: no emitted statement is empty or whitespace only,
\* the terminator counted as a character
C32_NoBlankStatement ==
  SplitCalled => \A n \in DOMAIN lastCall.out : trim(lastCall.out[n]) # <<>>


(***************************************************************************)
(* The text after the last terminator, over SpecSplit.                     *)
(***************************************************************************)
\* the text after the last semicolon read in Normal state
TailOf(sql) ==
  LET T == Terminators(sql)
      last == IF T = {} THEN 0 ELSE CHOOSE p \in T : \A q \in T : q <= p
  IN  SubSeq(sql, last + 1, Len(sql))

\* C33: the text after the last Normal-state semicolon is emitted, as the
\* last statement and as it stands, exactly when it holds a character that
\* is not whitespace; the number of statements is the number of
\* Normal-state semicolons, plus one when there is such a tail.
C33_TrailingFragmentEmitted ==
  SplitCalled =>
    LET sql  == lastCall.sql
        out  == lastCall.out
        tail == TailOf(sql)
    IN  IF trim(tail) # <<>>
        THEN /\ Len(out) = Cardinality(Terminators(sql)) + 1
             /\ out[Len(out)] = tail
        ELSE /\ Len(out) = Cardinality(Terminators(sql))
             /\ \A n \in DOMAIN out : EndOf(out, n) \in Terminators(sql)

\* a dump whose last statement has no terminator: two statements for one
\* Normal-state semicolon
C33_Witness ==
  /\ SplitCalled
  /\ lastCall.sql = <<"/", "*", ";", "*", "/", "a", ";", "a">>
  /\ Cardinality(Terminators(lastCall.sql)) = 1
  /\ Len(lastCall.out) = 2
  /\ lastCall.out[2] = <<"a">>


(***************************************************************************)
(* Properties of assignGroup, over SpecGroup.                              *)
(***************************************************************************)
GroupCalled == lastCall.fn = "assignGroup"

\* group number n has a prefix the lowercased name starts with
Matches(n, name) ==
  \E i \in DOMAIN GROUP_PREFIXES[n].prefixes :
    LET p == GROUP_PREFIXES[n].prefixes[i]
    IN  Len(p) <= Len(name) /\ SubSeq(toLowerCase(name), 1, Len(p)) = p

\* C34: assignGroup returns the first group, in declaration order, one of
\* whose prefixes the lowercased table name starts with, whatever longer
\* prefix a later group has, and "Other / Misc" when no group has one;
\* quest_rewards is in Quests, spawn_npcs in Spawns & Placement,
\* totally_unknown_xyz in Other / Misc.
C34_FirstMatchingGroup ==
  GroupCalled =>
    LET name == lastCall.tableName
        g    == lastCall.out
    IN  /\ \/ /\ g = "Other / Misc"
              /\ \A n \in DOMAIN GROUP_PREFIXES : ~Matches(n, name)
           \/ \E n \in DOMAIN GROUP_PREFIXES :
                /\ GROUP_PREFIXES[n].group = g
                /\ Matches(n, name)
                /\ \A m \in 1..(n - 1) : ~Matches(m, name)
        /\ name = <<"q","u","e","s","t","_","r","e","w","a","r","d","s">> => g = "Quests"
        /\ name = N_spawn_npcs => g = "Spawns & Placement"
        /\ name = <<"t","o","t","a","l","l","y","_","u","n","k","n","o","w","n","_","x","y","z">>
             => g = "Other / Misc"

\* npc_text is a prefix of the last group and npc_ one of an earlier group:
\* the earlier group wins
C34_Witness ==
  /\ GroupCalled
  /\ lastCall.tableName = <<"N","P","C","_","T","E","X","T","_","l","i","n","e","s">>
  /\ Matches(11, lastCall.tableName)
  /\ lastCall.out = "NPCs & Factions"


(***************************************************************************)
(* The danger test and letter case, over SpecCase.                         *)
(***************************************************************************)
\* the name is no Danger Set member but one of them written in another case
DangerInOtherCase(table) ==
  /\ table \notin DANGEROUS_TABLES
  /\ \E d \in DANGEROUS_TABLES : toLowerCase(d) = toLowerCase(table)

\* C35: the danger test is an exact, case-sensitive match while names are
\* selected ignoring case: a catalog table named like a Danger Set member
\* but for the letter case is chosen by that member's name, is not
\* dangerous, and has a plan step whenever it is chosen, with includeChars
\* off as well.
C35_DangerTestIsCaseSensitive ==
  lastBuild.called =>
    \A n \in DOMAIN lastBuild.catalog :
      LET row == lastBuild.catalog[n]
      IN  (DangerInOtherCase(row.table) /\ Selected(lastBuild, row)) =>
              /\ HasStep(lastBuild, row.table)
              /\ row.table \notin Range(lastBuild.warned)

\* guilds is asked for with includeChars off: the row guilds is dropped,
\* the row Guilds is a step
C35_Witness ==
  /\ lastBuild.called
  /\ ~lastBuild.includeChars
  /\ lastBuild.selectedTables = <<N_guilds>> /\ lastBuild.selectedGroups = <<>>
  /\ Len(lastBuild.catalog) = 2
  /\ lastBuild.warned = <<N_guilds>>
  /\ Len(lastBuild.plan.steps) = 1
  /\ lastBuild.plan.steps[1].table = N_Guilds


(***************************************************************************)
(* Order of the progress events, over SpecCatalog.                         *)
(***************************************************************************)
ArchiveEvents == {"downloading", "foundSql", "zipEmpty", "zipError"}

TypeAt(ev, types) == { p \in DOMAIN ev : ev[p].type \in types }

\* positions of the events of the archive of this name
OfZip(ev, name) == { p \in TypeAt(ev, ArchiveEvents) : ev[p].zip = name }

AllBefore(P, Q) == \A p \in P, q \in Q : p < q

\* the order the events of one list stand in
InFixedOrder(ev, tree) ==
  /\ AllBefore(TypeAt(ev, {"resolved"}), TypeAt(ev, {"found"}))
  /\ AllBefore(TypeAt(ev, {"found"}), TypeAt(ev, ArchiveEvents))
  /\ \A z \in DOMAIN tree :
       /\ AllBefore(OfZip(ev, tree[z].name) \cap TypeAt(ev, {"downloading"}),
                    OfZip(ev, tree[z].name) \cap
                      TypeAt(ev, {"foundSql", "zipEmpty", "zipError"}))
       /\ \A y \in DOMAIN tree :
            z < y => AllBefore(OfZip(ev, tree[z].name), OfZip(ev, tree[y].name))
  /\ AllBefore(DOMAIN ev \ TypeAt(ev, {"done"}), TypeAt(ev, {"done"}))

\* C36: the progress events come in a fixed order: "resolved" before the
\* archive count, the archive count before every archive's events, an
\* archive's start before its result, empty or error event, the events of
\* one archive before those of the next; a build that succeeds emits
\* exactly one "done", as its last event, carrying the length of the
\* returned catalog and the resolved commit id, and a build that fails
\* emits none.
C36_ProgressEventOrder ==
  CatalogCalled =>
    LET run  == lastCall.quiet
        ev   == run.events
        tree == lastCall.remote.tree
    IN  /\ InFixedOrder(ev, tree)
        /\ InFixedOrder(lastCall.progress.events, tree)
        /\ run.error # "none" => TypeAt(ev, {"done"}) = {}
        /\ run.error = "none" =>
             /\ TypeAt(ev, {"done"}) = {Len(ev)}
             /\ ev[Len(ev)].n = Len(run.catalog)
             /\ TypeAt(ev, {"resolved"}) # {}
             /\ \A p \in TypeAt(ev, {"resolved"}) :
                  ev[Len(ev)].commitSha = ev[p].commitSha
             /\ \A z \in DOMAIN tree :
                  /\ Cardinality(OfZip(ev, tree[z].name)
                                   \cap TypeAt(ev, {"downloading"})) = 1
                  /\ Cardinality(OfZip(ev, tree[z].name)
                                   \cap TypeAt(ev, {"foundSql", "zipError"})) = 1

\* an archive without SQL entry, then one with a dump: nine events
C36_Witness ==
  /\ CatalogCalled
  /\ lastCall.remote.tree = <<ZipEmpty, ZipGuilds>>
  /\ lastCall.quiet.error = "none"
  /\ [ p \in DOMAIN lastCall.quiet.events |-> lastCall.quiet.events[p].type ] =
       <<"resolving", "resolved", "found", "downloading", "foundSql", "zipEmpty",
         "downloading", "foundSql", "done">>
  /\ lastCall.quiet.events[9].n = 1


(***************************************************************************)
(* Terminal outcome of the router's jobs, over SpecJobsLive.               *)
(***************************************************************************)
TerminalStatus == {"finished", "error"}

\* status and terminal events of a job record agree
OneOutcome(job) ==
  /\ job.status \in {"none", "running"} => job.terminal = <<>>
  /\ job.status = "finished" => job.terminal = <<"done">>
  /\ job.status = "error" => job.terminal = <<"fail">>

\* a job that is over keeps its status, its log and its terminal event
UpdateJobsStay ==
  \A j \in JobIds :
    jobs[j].status \in TerminalStatus =>
      /\ jobs[j].status' = jobs[j].status
      /\ jobs[j].terminal' = jobs[j].terminal
      /\ logsOf(jobs[j])' = logsOf(jobs[j])

CatalogJobsStay ==
  \A c \in CatalogJobIds :
    catalogJobs[c].status \in TerminalStatus =>
      /\ catalogJobs[c].status' = catalogJobs[c].status
      /\ catalogJobs[c].terminal' = catalogJobs[c].terminal
      /\ catalogJobs[c].logs' = catalogJobs[c].logs

\* a job leaves "running" only for a terminal status
RunningOnlyEnds ==
  /\ \A j \in JobIds :
       jobs[j].status = "running" => jobs[j].status' \in {"running"} \cup TerminalStatus
  /\ \A c \in CatalogJobIds :
       catalogJobs[c].status = "running" =>
         catalogJobs[c].status' \in {"running"} \cup TerminalStatus

\* C37: every catalog job and every update job the router starts ends, in
\* exactly one of the statuses finished and error; exactly one terminal
\* event is emitted for it, done for finished and fail for error; once the
\* status is terminal, the status, the terminal event and the log of the
\* job change no more.
C37_OneTerminalOutcome ==
  /\ [](\A j \in JobIds : OneOutcome(jobs[j]))
  /\ [](\A c \in CatalogJobIds : OneOutcome(catalogJobs[c]))
  /\ [][UpdateJobsStay /\ CatalogJobsStay /\ RunningOnlyEnds]_vars
  /\ \A j \in JobIds :
       (jobs[j].status = "running") ~> (jobs[j].status \in TerminalStatus)
  /\ \A c \in CatalogJobIds :
       (catalogJobs[c].status = "running") ~> (catalogJobs[c].status \in TerminalStatus)

\* a catalog job that listed two archives has finished: eight lines, one done
C37_Witness ==
  \E c \in CatalogJobIds :
    /\ catalogJobs[c].status = "finished"
    /\ catalogJobs[c].terminal = <<"done">>
    /\ Len(catalogJobs[c].logs) = 8
    /\ catalogJobs[c].logs[8].type = "done"
    /\ catalogByRef # <<>>

\* the lines 1..n in the order the runner logged them
FirstLines(n) == [ k \in 1..n |-> k ]

\* what a response of the stream of a job with n log lines has been written:
\* while it listens every line so far, once each and in order; with its
\* terminal event every line of the job and the job's one terminal event;
\* closed by its client the lines up to the close
StreamInOrder(job, n, sub) ==
  /\ sub.got = FirstLines(Len(sub.got))
  /\ sub.backlog <= Len(sub.got)
  /\ sub.state = "idle" => sub = NoStream
  /\ sub.state = "listening" =>
        job.status = "running" /\ Len(sub.got) = n /\ sub.last = "none"
  /\ sub.last # "none" =>
        sub.state = "ended" /\ Len(sub.got) = n /\ job.terminal = <<sub.last>>
  /\ sub.state = "ended" /\ sub.last = "none" => Len(sub.got) <= n

\* a response that has ended is written nothing more; a listening response
\* ends without terminal event only in a step that leaves the job as it is
\* (its client closed the connection)
StreamEndsOnce(job, jobAfter, n, nAfter, s) ==
  /\ job.subs[s].state = "ended" => jobAfter.subs[s] = job.subs[s]
  /\ (job.subs[s].state = "listening" /\ jobAfter.subs[s].state = "ended"
        /\ jobAfter.subs[s].last = "none")
       => (nAfter = n /\ jobAfter.status = job.status)

\* C38: a client that opens the stream of an update job or of a catalog job
\* before its first line, while it runs or after it ended, and stays
\* connected, is written every log line of the job exactly once, in the order
\* they were logged, and then exactly one terminal event, the job's; between
\* the replay of the backlog and the listeners no line is lost or repeated.
C38_StreamDeliversEveryLineOnce ==
  /\ [](\A j \in JobIds, s \in StreamIds :
          StreamInOrder(jobs[j], logsOf(jobs[j]), jobs[j].subs[s]))
  /\ [](\A c \in CatalogJobIds, s \in StreamIds :
          StreamInOrder(catalogJobs[c], Len(catalogJobs[c].logs), catalogJobs[c].subs[s]))
  /\ [][/\ \A j \in JobIds, s \in StreamIds :
             StreamEndsOnce(jobs[j], jobs'[j], logsOf(jobs[j]), logsOf(jobs'[j]), s)
        /\ \A c \in CatalogJobIds, s \in StreamIds :
             StreamEndsOnce(catalogJobs[c], catalogJobs'[c], Len(catalogJobs[c].logs),
                            Len(catalogJobs'[c].logs), s)]_vars
  /\ \A j \in JobIds, s \in StreamIds :
       (jobs[j].subs[s].state = "listening") ~> (jobs[j].subs[s].state = "ended")
  /\ \A c \in CatalogJobIds, s \in StreamIds :
       (catalogJobs[c].subs[s].state = "listening")
         ~> (catalogJobs[c].subs[s].state = "ended")

\* a catalog job whose builder has sent its eight lines: the response opened
\* before the first line and the response opened after the third have both
\* been written the lines 1..8
C38_Witness ==
  \E c \in CatalogJobIds :
    /\ catalogJobs[c].status = "running"
    /\ Len(catalogJobs[c].logs) = 8
    /\ catalogJobs[c].subs["s1"].state = "listening"
    /\ catalogJobs[c].subs["s1"].backlog = 3
    /\ catalogJobs[c].subs["s1"].got = FirstLines(8)
    /\ catalogJobs[c].subs["s2"].state = "listening"
    /\ catalogJobs[c].subs["s2"].backlog = 0
    /\ catalogJobs[c].subs["s2"].got = FirstLines(8)
\* the step answers a /start request
StartAnswered == lastCall = NoCall /\ lastCall' # NoCall /\ lastCall'.fn = "start"

\* the step creates an update job
JobCreated == \E j \in JobIds : jobs[j].status = "none" /\ jobs'[j].status # "none"

\* the step hands a command to the connection
CommandIssued == Len(queue') > Len(queue)

\* the catalog cached for the request: the one of its catalog job when that
\* job has cached one, else the one of the ref
CachedFor(cid) ==
  IF cid \in CatalogJobIds /\ catalogJobs[cid].status = "finished"
  THEN builderRun(catalogJobs[cid]).catalog
  ELSE catalogByRef

\* the tables of the steps of the jobs are tables of the catalog
StepsFrom(js, catalog) ==
  \A j \in JobIds : \A k \in DOMAIN js[j].plan.steps :
    \E n \in DOMAIN catalog : catalog[n].table = js[j].plan.steps[k].table

\* C39: /start creates an update job and hands a command to the connection
\* only when the catalog cached for the request (by its catalog job id, else
\* by ref) is not empty and the plan built from it has a step; any other
\* request is answered 400 and creates no job and issues no command; no
\* /start request changes a cached catalog or a catalog job.
C39_StartNeedsCachedCatalogAndSteps ==
  [][/\ (JobCreated \/ CommandIssued) =>
          /\ StartAnswered
          /\ lastCall'.status = 200
          /\ CachedFor(lastCall'.catalogJobId) # <<>>
          /\ \E j \in JobIds : jobs'[j].plan.steps # <<>>
          /\ StepsFrom(jobs', CachedFor(lastCall'.catalogJobId))
     /\ StartAnswered =>
          /\ UNCHANGED <<catalogByRef, catalogJobs, db>>
          /\ lastCall'.status \in {200, 400}
          /\ lastCall'.status = 200 => JobCreated
          /\ lastCall'.status = 400 => UNCHANGED <<jobs, queue>>
          /\ (CachedFor(lastCall'.catalogJobId) = <<>>
                \/ startPlan(CachedFor(lastCall'.catalogJobId), lastCall'.body).steps = <<>>)
               => lastCall'.status = 400]_vars

\* a request that names a catalog job whose build found no table is refused
\* although a catalog with tables is cached for the ref; no job exists
C39_Witness ==
  /\ lastCall # NoCall
  /\ lastCall.fn = "start"
  /\ lastCall.status = 400
  /\ lastCall.catalogJobId = "cat_1"
  /\ lastCall.catalog = <<>>
  /\ catalogJobs["cat_1"].status = "finished"
  /\ catalogByRef # <<>>
  /\ \A j \in JobIds : jobs[j].status = "none"
====
